---- MODULE Spec2Model ----
(***************************************************************************)
(* The bytecode compiler (src/src/compiler.rs, src/src/scope.rs) and the   *)
(* register VM (src/src/vm/mod.rs, src/src/vm/registers.rs) of sol.        *)
(*                                                                         *)
(* The compiler is a pure function of the statement list: it is modelled   *)
(* by recursive operators that thread the Compiler struct through the      *)
(* statement tree exactly in the order of the Rust code.  The VM dispatch  *)
(* loop is modelled as one action per instruction handler.                 *)
(***************************************************************************)
EXTENDS Integers, Sequences, FiniteSets, TLC

(***************************************************************************)
(* Operand widths and fixed capacities of the program.                     *)
(***************************************************************************)
\* Register = u8 (instructions.rs), the largest register index
U8Max == 255
\* JumpOffset = u16 (instructions.rs), the largest value try_into::<u16> accepts
U16Max == 65535
\* the placeholder offset compile_break emits
BreakSentinel == 57005
\* Registers::new resizes the flat register vector to u8::MAX entries
RegisterCapacity == 255

(***************************************************************************)
(* types::Literal: a tagged constant.  Every literal is a record with the  *)
(* same fields so that derived PartialEq is plain record equality: two     *)
(* literals are equal iff they have the same variant and the same payload. *)
(***************************************************************************)
LInteger(v) == [lt |-> "Integer", n |-> v, s |-> ""]
LBoolean(v) == [lt |-> "Boolean", n |-> IF v THEN 1 ELSE 0, s |-> ""]
LString(v)  == [lt |-> "String",  n |-> 0, s |-> v]
\* a Float is kept as a count of halves (2.5 is LFloat(5))
LFloat(h)   == [lt |-> "Float",   n |-> h, s |-> ""]
\* the Floats that are no numbers: the infinity of a sign (1, -1), and NaN
LInfinity(sign) == [lt |-> "Float", n |-> sign, s |-> "inf"]
LNaN            == [lt |-> "Float", n |-> 0, s |-> "NaN"]

(***************************************************************************)
(* ast::Expression and ast::Statement constructors.                        *)
(***************************************************************************)
ELiteral(lit)          == [k |-> "Literal", lit |-> lit]
EVariable(name)        == [k |-> "Variable", name |-> name]
EPrefix(op, e)         == [k |-> "Prefix", op |-> op, expr |-> e]
EInfix(op, l, r)       == [k |-> "Infix", op |-> op, lhs |-> l, rhs |-> r]
EFunctionCall(name, a) == [k |-> "FunctionCall", name |-> name, args |-> a]
EObject(fields)        == [k |-> "Object", fields |-> fields]
EObjectAccess(path)    == [k |-> "ObjectAccess", path |-> path]
EInt(v)                == ELiteral(LInteger(v))
EBool(v)               == ELiteral(LBoolean(v))
EStr(v)                == ELiteral(LString(v))

SConst(name, value)         == [k |-> "Const", name |-> name, value |-> value]
SLet(name, value, mut)      == [k |-> "Let", name |-> name, value |-> value, is_mutable |-> mut]
SReassignment(name, value)  == [k |-> "Reassignment", name |-> name, value |-> value]
SObjectMutation(path, value) == [k |-> "ObjectMutation", path |-> path, value |-> value]
SIf(c, body, else_statement) ==
    [k |-> "If", condition |-> c, then |-> body, else_statement |-> else_statement]
SBlock(body)                == [k |-> "Block", body |-> body]
SLoop(body)                 == [k |-> "Loop", lbody |-> body]
SReturn(e)                  == [k |-> "Return", expr |-> e]
SFunction(name, params, body) ==
    [k |-> "Function", name |-> name, parameters |-> params, fbody |-> body]
SExpression(e)              == [k |-> "Expression", expr |-> e]
SBreak                      == [k |-> "Break"]
\* Option::None of else_statement
NoElse                      == [k |-> "None"]

(***************************************************************************)
(* instructions::Instruction.                                              *)
(***************************************************************************)
ICopy(dest, src)                  == [op |-> "Copy", dest |-> dest, src |-> src]
ILoadFunction(dest, src)          == [op |-> "LoadFunction", dest |-> dest, src |-> src]
ICallNativeFunction(src, n, ret)  ==
    [op |-> "CallNativeFunction", src |-> src, arg_count |-> n, return_val |-> ret]
ICallFunction(src, n, ret)        ==
    [op |-> "CallFunction", src |-> src, arg_count |-> n, return_val |-> ret]
IAllocateObject(dest)             == [op |-> "AllocateObject", dest |-> dest]
ISetObjectField(object, field, value) ==
    [op |-> "SetObjectField", object |-> object, field |-> field, value |-> value]
IGetObjectField(object, field, ret) ==
    [op |-> "GetObjectField", object |-> object, field |-> field, return_val |-> ret]
IAllocateArray(dest)              == [op |-> "AllocateArray", dest |-> dest]
ISetArrayIndex(array, index, value) ==
    [op |-> "SetArrayIndex", array |-> array, index |-> index, value |-> value]
IGetArrayIndex(array, index, ret) ==
    [op |-> "GetArrayIndex", array |-> array, index |-> index, return_val |-> ret]
ILoadLiteral(dest, src)           == [op |-> "LoadLiteral", dest |-> dest, src |-> src]
IPrefix(op, dest, rhs)            == [op |-> op, dest |-> dest, rhs |-> rhs]
IJumpIfFalse(src, offset)         == [op |-> "JumpIfFalse", src |-> src, offset |-> offset]
IJump(offset)                     == [op |-> "Jump", offset |-> offset]
IJumpReverse(offset)              == [op |-> "JumpReverse", offset |-> offset]
IBinary(op, dest, lhs, rhs)       == [op |-> op, dest |-> dest, lhs |-> lhs, rhs |-> rhs]
IReturn(val)                      == [op |-> "Return", val |-> val]
IFunctionReturn                   == [op |-> "FunctionReturn"]

ArithmeticOps == {"Add", "Sub", "Mul", "Div"}
ComparatorOps == {"Equals", "NotEquals", "GreaterThan", "GreaterThanOrEquals",
                  "LessThan", "LessThanOrEquals"}

(***************************************************************************)
(* scope::Scope: the symbol table of one block and the set of function     *)
(* names declared in it.  symbols is a HashMap: a later insert of the same *)
(* name replaces the earlier entry.                                        *)
(***************************************************************************)
NewScope(type) == [type |-> type, functions |-> {}, symbols |-> <<>>]

\* HashMap::insert on a map kept as a sequence of (name, Value) entries with
\* at most one entry for each name
RECURSIVE MapRemove(_, _)
MapRemove(m, name) ==
    IF m = <<>> THEN <<>>
    ELSE IF Head(m).name = name THEN MapRemove(Tail(m), name)
         ELSE <<Head(m)>> \o MapRemove(Tail(m), name)

MapHas(m, name) == \E i \in 1..Len(m) : m[i].name = name
MapGet(m, name) == m[CHOOSE i \in 1..Len(m) : m[i].name = name]

define_symbol(scope, name, register, is_mutable) ==
    [scope EXCEPT !.symbols =
        Append(MapRemove(@, name),
               [name |-> name, register |-> register, is_mutable |-> is_mutable])]

define_immutable(scope, name, register) == define_symbol(scope, name, register, FALSE)
define_mutable(scope, name, register)   == define_symbol(scope, name, register, TRUE)
define_function(scope, name)  == [scope EXCEPT !.functions = @ \cup {name}]
contains_function(scope, name) == name \in scope.functions
\* Option<Register>: get_register_for is Some exactly when the name has an entry
has_register_for(scope, name) == MapHas(scope.symbols, name)
get_register_for(scope, name) == MapGet(scope.symbols, name).register
is_mutable(scope, name)       == MapGet(scope.symbols, name).is_mutable

(***************************************************************************)
(* compiler::Compiler.  err is "" while every `?` so far has passed; once  *)
(* an operation has returned Err the struct is passed through unchanged,   *)
(* which is what the early returns of the Rust code amount to.  err is     *)
(* "Panic" when the compiler has panicked.  overflow_checks is the setting *)
(* of the build the compiler runs in: unsigned `+` panics on overflow when *)
(* it is on (the dev profile) and wraps when it is off (release).          *)
(***************************************************************************)
NewCompiler ==
    [scope_stack |-> <<NewScope("Global")>>,
     literals |-> <<>>,
     next_available_register |-> 1,
     functions |-> <<>>,
     bytecode |-> <<>>,
     err |-> "",
     overflow_checks |-> TRUE]

Failed(c)      == c.err # ""
Fail(c, error) == [c EXCEPT !.err = error]
Emit(c, instruction) == [c EXCEPT !.bytecode = Append(@, instruction)]

add_scope(c)    == [c EXCEPT !.scope_stack = Append(@, NewScope("Local"))]
remove_scope(c) == [c EXCEPT !.scope_stack = SubSeq(@, 1, Len(@) - 1)]

define_immutable_current_scope(c, name, register) ==
    [c EXCEPT !.scope_stack[Len(c.scope_stack)] = define_immutable(@, name, register)]

define_mutable_current_scope(c, name, register) ==
    [c EXCEPT !.scope_stack[Len(c.scope_stack)] = define_mutable(@, name, register)]

define_function_current_scope(c, name) ==
    [c EXCEPT !.scope_stack[Len(c.scope_stack)] = define_function(@, name)]

\* the scopes that bind name, innermost last
BindingScopes(c, name) ==
    {i \in 1..Len(c.scope_stack) : has_register_for(c.scope_stack[i], name)}

Max(S) == CHOOSE x \in S : \A y \in S : y <= x

\* variant: the outermost binding decides
can_mutate_variable_outermost(c, name) ==
    IF BindingScopes(c, name) = {} THEN FALSE
    ELSE is_mutable(c.scope_stack[CHOOSE i \in BindingScopes(c, name) :
                                     \A j \in BindingScopes(c, name) : i <= j], name)

\* variant: any enclosing mutable binding allows the mutation
can_mutate_variable_any(c, name) ==
    \E i \in BindingScopes(c, name) : is_mutable(c.scope_stack[i], name)

can_mutate_variable(c, name) ==
    IF BindingScopes(c, name) = {} THEN FALSE
    ELSE is_mutable(c.scope_stack[Max(BindingScopes(c, name))], name)

\* variant: the scope stack is searched from the outermost scope
resolve_outermost(c, name) ==
    get_register_for(
        c.scope_stack[CHOOSE i \in BindingScopes(c, name) :
                         \A j \in BindingScopes(c, name) : i <= j], name)

\* Option<Register>: resolve is Some exactly when some scope binds the name
resolves(c, name) == BindingScopes(c, name) # {}
resolve(c, name)  == get_register_for(c.scope_stack[Max(BindingScopes(c, name))], name)

\* variant: a function declared in a scope that has been left still counts
resolve_function_any_scope(c, name) == TRUE

resolve_function(c, name) ==
    \E i \in 1..Len(c.scope_stack) : contains_function(c.scope_stack[i], name)

\* `a + b` on an unsigned integer type whose largest value is max
overflowing_add(c, a, b, max) ==
    IF a + b <= max THEN [c |-> c, value |-> a + b]
    ELSE IF c.overflow_checks
         THEN [c |-> Fail(c, "Panic"), value |-> a]     \* attempt to add with overflow
         ELSE [c |-> c, value |-> (a + b) % (max + 1)]

\* `self.next_available_register += 1` on a u8
advance_register(c) ==
    IF c.next_available_register + 1 <= U8Max
    THEN [c EXCEPT !.next_available_register = @ + 1]
    ELSE IF c.overflow_checks
         THEN Fail(c, "Panic")                          \* attempt to add with overflow
         ELSE [c EXCEPT !.next_available_register = 0]

\* get_register: hand out the counter and advance it
get_register(c) ==
    [c |-> advance_register(c), reg |-> c.next_available_register]

\* the literal pool lookup of compile_expression (Literal): the id of the first
\* equal literal, else the id of the literal appended (ids count from 0)
LiteralMatches(literals, lit) == {i \in 1..Len(literals) : literals[i] = lit}
Min(S) == CHOOSE x \in S : \A y \in S : x <= y

\* variant: every literal is appended, equal or not
intern_literal_append(c, lit) ==
    [c |-> [c EXCEPT !.literals = Append(@, lit)], id |-> Len(c.literals)]

intern_literal(c, lit) ==
    IF LiteralMatches(c.literals, lit) # {}
    THEN [c |-> c, id |-> Min(LiteralMatches(c.literals, lit)) - 1]
    ELSE [c |-> [c EXCEPT !.literals = Append(@, lit)], id |-> Len(c.literals)]

\* self.functions.iter().rev().enumerate().find(|(_, f)| f.name == name):
\* the distance from the end of the last function of that name
FunctionsNamed(c, name) == {i \in 1..Len(c.functions) : c.functions[i].name = name}
rev_position(c, name)   == Len(c.functions) - Max(FunctionsNamed(c, name))

PrefixInstruction(op) == CASE op = "Minus" -> "PrefixSub"
                           [] op = "Not"   -> "PrefixNot"
                           [] OTHER        -> "none"

InfixInstruction(op) == CASE op = "Plus"     -> "Add"
                          [] op = "Minus"    -> "Sub"
                          [] op = "Divide"   -> "Div"
                          [] op = "Multiply" -> "Mul"
                          [] op = "Equal"    -> "Equals"
                          [] op = "NotEqual" -> "NotEquals"
                          [] op = "GreaterThan" -> "GreaterThan"
                          [] op = "GreaterThanOrEqual" -> "GreaterThanOrEquals"
                          [] op = "LessThan" -> "LessThan"
                          [] op = "LessThanOrEqual" -> "LessThanOrEquals"
                          [] OTHER -> "none"

\* the loop `for reg in regs { dest = get_register(); push(Copy{dest, src: reg}) }`
RECURSIVE copy_arguments(_, _, _)
copy_arguments(c, regs, i) ==
    IF i > Len(regs) THEN c
    ELSE LET r == get_register(c)
         IN copy_arguments(Emit(r.c, ICopy(r.reg, regs[i])), regs, i + 1)

\* the patch pass of compile_loop: it walks bytecode[i] for i in 0..body_size,
\* indexing the current buffer from its start
RECURSIVE patch_breaks(_, _, _)
patch_breaks(c, body_size, i) ==
    IF Failed(c) \/ i >= body_size THEN c
    ELSE LET offset == body_size - i + 2
             instruction == c.bytecode[i + 1]
         IN IF instruction.op = "Jump" /\ instruction.offset = BreakSentinel
            THEN IF offset > U16Max
                 THEN Fail(c, "IntegerConversionError")
                 ELSE \* `offset.try_into().map(|o: JumpOffset| o + 1)`
                      LET patched == overflowing_add(c, offset, 1, U16Max)
                      IN patch_breaks([patched.c EXCEPT !.bytecode[i + 1] =
                                          IJump(patched.value)],
                                      body_size, i + 1)
            ELSE patch_breaks(c, body_size, i + 1)

RECURSIVE compile_expression(_, _), compile_arguments(_, _, _, _),
          compile_fields(_, _, _, _), compile_path(_, _, _, _, _, _),
          compile_statement(_, _), compile_statements(_, _, _),
          compile_range(_, _, _, _),
          compile_block(_, _), compile_if(_, _, _, _), compile_function(_, _),
          compile_loop(_, _)

\* `for arg in args { regs.push(self.compile_expression(arg)?) }`
compile_arguments(c, args, i, regs) ==
    IF Failed(c) \/ i > Len(args) THEN [c |-> c, regs |-> regs]
    ELSE LET r == compile_expression(c, args[i])
         IN compile_arguments(r.c, args, i + 1, Append(regs, r.reg))

\* the field loop of an object literal
compile_fields(c, fields, i, reg) ==
    IF Failed(c) \/ i > Len(fields) THEN c
    ELSE LET name  == compile_expression(c, EStr(fields[i].name))
             value == compile_expression(name.c, fields[i].value)
         IN IF Failed(value.c) THEN value.c
            ELSE compile_fields(Emit(value.c, ISetObjectField(reg, name.reg, value.reg)),
                                fields, i + 1, reg)

\* the GetObjectField loop shared by ObjectAccess and compile_object_mutation:
\* path[i..last] are read one after the other into `register`
compile_path(c, path, i, last, obj_reg, register) ==
    IF Failed(c) \/ i > last THEN [c |-> c, reg |-> obj_reg]
    ELSE LET path_reg == compile_expression(c, EStr(path[i]))
         IN compile_path(Emit(path_reg.c, IGetObjectField(obj_reg, path_reg.reg, register)),
                         path, i + 1, last, register, register)

compile_expression(c, expr) ==
    IF Failed(c) THEN [c |-> c, reg |-> 0]
    ELSE CASE expr.k = "Prefix" ->
            LET rhs  == compile_expression(c, expr.expr)
                dest == get_register(rhs.c)
            IN IF Failed(rhs.c) THEN rhs
               ELSE IF PrefixInstruction(expr.op) = "none"
                    THEN [c |-> Fail(dest.c, "GeneralError"), reg |-> 0]
                    ELSE [c |-> Emit(dest.c, IPrefix(PrefixInstruction(expr.op),
                                                     dest.reg, rhs.reg)),
                          reg |-> dest.reg]
         [] expr.k = "Infix" ->
            LET lhs  == compile_expression(c, expr.lhs)
                rhs  == compile_expression(lhs.c, expr.rhs)
                dest == get_register(rhs.c)
            IN IF Failed(rhs.c) THEN rhs
               ELSE IF InfixInstruction(expr.op) = "none"
                    THEN [c |-> Fail(dest.c, "GeneralError"), reg |-> 0]
                    ELSE [c |-> Emit(dest.c, IBinary(InfixInstruction(expr.op),
                                                     dest.reg, lhs.reg, rhs.reg)),
                          reg |-> dest.reg]
         [] expr.k = "Literal" ->
            LET reg == get_register(c)
                lit == intern_literal(reg.c, expr.lit)
            IN [c |-> Emit(lit.c, ILoadLiteral(reg.reg, lit.id)), reg |-> reg.reg]
         [] expr.k = "Variable" ->
            IF resolves(c, expr.name)
            THEN [c |-> c, reg |-> resolve(c, expr.name)]
            ELSE [c |-> Fail(c, "VariableNotFound"), reg |-> 0]
         [] expr.k = "FunctionCall" ->
            LET is_found == resolve_function(c, expr.name)
                               /\ FunctionsNamed(c, expr.name) # {}
                found_pos == rev_position(c, expr.name)
                args      == compile_arguments(c, expr.args, 1, <<>>)
                start_reg == args.c.next_available_register
                copied    == copy_arguments(args.c, args.regs, 1)
                last_reg  == copied.next_available_register
            IN IF Failed(args.c) THEN [c |-> args.c, reg |-> 0]
               ELSE IF is_found
                    THEN LET found_id == Len(copied.functions) - found_pos - 1
                             reg == get_register(copied)
                             return_value == get_register(reg.c)
                             loaded == Emit(return_value.c,
                                            ILoadFunction(reg.reg, found_id))
                         IN [c |-> Emit(loaded,
                                        ICallFunction(reg.reg, last_reg - start_reg,
                                                      return_value.reg)),
                             reg |-> return_value.reg]
                    ELSE LET register == compile_expression(copied, EStr(expr.name))
                             return_value == get_register(register.c)
                         IN [c |-> Emit(return_value.c,
                                        ICallNativeFunction(register.reg,
                                                            last_reg - start_reg,
                                                            return_value.reg)),
                             reg |-> return_value.reg]
         [] expr.k = "Object" ->
            LET reg == get_register(c)
                allocated == Emit(reg.c, IAllocateObject(reg.reg))
            IN [c |-> compile_fields(allocated, expr.fields, 1, reg.reg),
                reg |-> reg.reg]
         [] expr.k = "ObjectAccess" ->
            LET register == get_register(c)
                base == compile_expression(register.c, EVariable(expr.path[1]))
                read == compile_path(base.c, expr.path, 2, Len(expr.path),
                                     base.reg, register.reg)
            IN [c |-> read.c, reg |-> register.reg]

compile_statements(c, body, i) == compile_range(c, body, i, Len(body))

\* statements lo..hi of a body in order, stopping at the first that fails; the
\* range is split in halves so that long bodies are evaluated at logarithmic
\* depth
compile_range(c, body, lo, hi) ==
    IF Failed(c) \/ lo > hi THEN c
    ELSE IF lo = hi THEN compile_statement(c, body[lo])
    ELSE LET mid == (lo + hi) \div 2
         IN compile_range(compile_range(c, body, lo, mid), body, mid + 1, hi)

\* variant: the register counter is restored when the block is left
compile_block_restoring(c, body) ==
    LET compiled == compile_statements(add_scope(c), body, 1)
    IN IF Failed(compiled) THEN compiled
       ELSE [remove_scope(compiled) EXCEPT
                !.next_available_register = c.next_available_register]

compile_block(c, body) ==
    LET compiled == compile_statements(add_scope(c), body, 1)
    IN IF Failed(compiled) THEN compiled ELSE remove_scope(compiled)

\* `for param in &func.parameters { define_immutable(param, counter); counter += 1 }`
\* variant: the counter is not advanced between parameters
RECURSIVE bind_parameters_same_register(_, _, _)
bind_parameters_same_register(c, parameters, i) ==
    IF i > Len(parameters) THEN [c EXCEPT !.next_available_register = @ + Len(parameters)]
    ELSE bind_parameters_same_register(
            define_immutable_current_scope(c, parameters[i], c.next_available_register),
            parameters, i + 1)

RECURSIVE bind_parameters(_, _, _)
bind_parameters(c, parameters, i) ==
    IF i > Len(parameters) THEN c
    ELSE LET bound == define_immutable_current_scope(c, parameters[i],
                                                     c.next_available_register)
         IN bind_parameters([bound EXCEPT !.next_available_register = @ + 1],
                            parameters, i + 1)

\* variant: the register counter reached in the body is kept
compile_function_keeping_counter(c, func) ==
    LET declared == add_scope(define_function_current_scope(
                        [c EXCEPT !.next_available_register = 1], func.name))
        bound == bind_parameters([declared EXCEPT !.bytecode = <<>>], func.parameters, 1)
        body  == IF func.fbody.k = "Block"
                 THEN compile_statements(bound, func.fbody.body, 1)
                 ELSE Fail(bound, "GeneralError")
    IN IF Failed(body) THEN body
       ELSE remove_scope(
              [body EXCEPT !.bytecode = declared.bytecode,
                           !.functions = Append(@, [name |-> func.name,
                                                    code |-> Append(body.bytecode,
                                                                    IFunctionReturn),
                                                    register_count |->
                                                        body.next_available_register])])

compile_function(c, func) ==
    LET prev_register_count == c.next_available_register
        declared == add_scope(define_function_current_scope(
                        [c EXCEPT !.next_available_register = 1], func.name))
        prev_code == declared.bytecode
        bound == bind_parameters([declared EXCEPT !.bytecode = <<>>], func.parameters, 1)
        body  == IF func.fbody.k = "Block"
                 THEN compile_statements(bound, func.fbody.body, 1)
                 ELSE Fail(bound, "GeneralError")
        function_code  == Append(body.bytecode, IFunctionReturn)
        used_registers == body.next_available_register
    IN IF Failed(body) THEN body
       ELSE remove_scope(
              [body EXCEPT !.bytecode = prev_code,
                           !.functions = Append(@, [name |-> func.name,
                                                    code |-> function_code,
                                                    register_count |-> used_registers]),
                           !.next_available_register = prev_register_count])

compile_let(c, name, value, mutable) ==
    LET v == compile_expression(c, value)
    IN IF Failed(v.c) THEN v.c
       ELSE IF mutable THEN define_mutable_current_scope(v.c, name, v.reg)
                       ELSE define_immutable_current_scope(v.c, name, v.reg)

\* variant: the name is rebound to the register of the new value
compile_let_mutation_rebinding(c, name, value) ==
    IF can_mutate_variable(c, name)
    THEN LET v == compile_expression(c, value)
         IN IF Failed(v.c) THEN v.c
            ELSE define_mutable_current_scope(v.c, name, v.reg)
    ELSE Fail(c, "MutationNotAllowed")

compile_let_mutation(c, name, value) ==
    IF can_mutate_variable(c, name)
    THEN LET v == compile_expression(c, value)
             mutable_value_register == resolve(v.c, name)
         IN IF Failed(v.c) THEN v.c
            ELSE define_mutable_current_scope(
                    Emit(v.c, ICopy(mutable_value_register, v.reg)),
                    name, mutable_value_register)
    ELSE Fail(c, "MutationNotAllowed")

\* variant: JumpIfFalse never counts the Jump that closes the "then" body
compile_if_no_else_slot(c, condition, body, else_statement) ==
    LET cond == compile_expression(c, condition)
        then_c == compile_statement([cond.c EXCEPT !.bytecode = <<>>], body)
        jumped == [then_c EXCEPT !.bytecode =
                      Append(cond.c.bytecode,
                             IJumpIfFalse(cond.reg, Len(then_c.bytecode) + 1))
                      \o then_c.bytecode]
        else_c == IF else_statement.k = "If"
                  THEN compile_if([jumped EXCEPT !.bytecode = <<>>],
                                  else_statement.condition, else_statement.then,
                                  else_statement.else_statement)
                  ELSE compile_block([jumped EXCEPT !.bytecode = <<>>],
                                     else_statement.body)
    IN IF Failed(cond.c) THEN cond.c
       ELSE IF Failed(then_c) THEN then_c
       ELSE IF else_statement.k = "None" THEN jumped
       ELSE IF Failed(else_c) THEN else_c
       ELSE [else_c EXCEPT !.bytecode =
                Append(jumped.bytecode, IJump(Len(else_c.bytecode) + 1))
                \o else_c.bytecode]

\* variant: the Jump that closes the "then" body skips nothing, so control
\* falls from a taken branch into the rest of the chain
compile_if_falling_through(c, condition, body, else_statement) ==
    LET cond == compile_expression(c, condition)
        then_c == compile_statement([cond.c EXCEPT !.bytecode = <<>>], body)
        jumped == [then_c EXCEPT !.bytecode =
                      Append(cond.c.bytecode,
                             IJumpIfFalse(cond.reg, Len(then_c.bytecode) + 1
                                 + (IF else_statement.k = "None" THEN 0 ELSE 1)))
                      \o then_c.bytecode]
        else_c == IF else_statement.k = "If"
                  THEN compile_if([jumped EXCEPT !.bytecode = <<>>],
                                  else_statement.condition, else_statement.then,
                                  else_statement.else_statement)
                  ELSE compile_block([jumped EXCEPT !.bytecode = <<>>],
                                     else_statement.body)
    IN IF Failed(cond.c) THEN cond.c
       ELSE IF Failed(then_c) THEN then_c
       ELSE IF else_statement.k = "None" THEN jumped
       ELSE IF Failed(else_c) THEN else_c
       ELSE [else_c EXCEPT !.bytecode =
                Append(jumped.bytecode, IJump(1)) \o else_c.bytecode]

compile_if(c, condition, body, else_statement) ==
    LET cond == compile_expression(c, condition)
        old_current_code == cond.c.bytecode
        then_c == compile_statement([cond.c EXCEPT !.bytecode = <<>>], body)
        if_statement_body == then_c.bytecode
        offset == IF else_statement.k = "None" THEN 0 ELSE 1
        \* `.try_into().map(|i: u16| i + 1u16 + offset)`
        jump_offset == overflowing_add(then_c, Len(if_statement_body), 1 + offset, U16Max)
        jumped == [jump_offset.c EXCEPT !.bytecode =
                      Append(old_current_code,
                             IJumpIfFalse(cond.reg, jump_offset.value))
                      \o if_statement_body]
        old_code_2 == jumped.bytecode
        else_c == IF else_statement.k = "If"
                  THEN compile_if([jumped EXCEPT !.bytecode = <<>>],
                                  else_statement.condition, else_statement.then,
                                  else_statement.else_statement)
                  ELSE compile_block([jumped EXCEPT !.bytecode = <<>>],
                                     else_statement.body)
        else_statement_body == else_c.bytecode
    IN IF Failed(cond.c) THEN cond.c
       ELSE IF Failed(then_c) THEN then_c
       ELSE IF Len(if_statement_body) > U16Max THEN Fail(then_c, "IntegerConversionError")
       ELSE IF Failed(jumped) THEN jumped
       ELSE IF else_statement.k = "None" THEN jumped
       ELSE IF Failed(else_c) THEN else_c
       ELSE \* `else_statement_body.len() as u16 + 1`
            LET else_offset == overflowing_add(else_c,
                                   Len(else_statement_body) % (U16Max + 1), 1, U16Max)
            IN [else_offset.c EXCEPT !.bytecode =
                   Append(old_code_2, IJump(else_offset.value)) \o else_statement_body]

compile_return(c, expression) ==
    LET e == compile_expression(c, expression)
    IN IF Failed(e.c) THEN e.c ELSE Emit(e.c, IReturn(e.reg))

compile_loop(c, body) ==
    LET bytecode_size == Len(c.bytecode)
        compiled  == compile_block(c, body.body)
        body_size == Len(compiled.bytecode) - bytecode_size
        patched   == patch_breaks(compiled, body_size, 0)
    IN IF Failed(compiled) THEN compiled
       ELSE IF Failed(patched) THEN patched
       ELSE IF body_size > U16Max THEN Fail(patched, "IntegerConversionError")
       ELSE Emit(patched, IJumpReverse(body_size))

compile_break(c) == Emit(c, IJump(BreakSentinel))

compile_object_mutation(c, path, value) ==
    LET register == get_register(c)
        base == compile_expression(register.c, EVariable(path[1]))
        read == compile_path(base.c, path, 2, Len(path) - 1, base.reg, register.reg)
        last_reg == compile_expression(read.c, EStr(path[Len(path)]))
        v == compile_expression(last_reg.c, value)
    IN IF Failed(v.c) THEN v.c
       ELSE Emit(v.c, ISetObjectField(read.reg, last_reg.reg, v.reg))

compile_statement(c, statement) ==
    IF Failed(c) THEN c
    ELSE CASE statement.k = "Const" ->
                compile_let(c, statement.name, statement.value, FALSE)
           [] statement.k = "Let" ->
                compile_let(c, statement.name, statement.value, statement.is_mutable)
           [] statement.k = "Reassignment" ->
                compile_let_mutation(c, statement.name, statement.value)
           [] statement.k = "If" ->
                compile_if(c, statement.condition, statement.then,
                           statement.else_statement)
           [] statement.k = "Block"      -> compile_block(c, statement.body)
           [] statement.k = "Function"   -> compile_function(c, statement)
           [] statement.k = "Expression" -> compile_expression(c, statement.expr).c
           [] statement.k = "Return"     -> compile_return(c, statement.expr)
           [] statement.k = "Loop"       -> compile_loop(c, statement.lbody)
           [] statement.k = "Break"      -> compile_break(c)
           [] statement.k = "ObjectMutation" ->
                compile_object_mutation(c, statement.path, statement.value)

\* Compiler::compile: the Compiler struct after the statement loop
compile(c, statements) == compile_statements(c, statements, 1)

\* the CompiledProgram compile returns when no statement failed
CompiledProgram(c) ==
    [functions |-> c.functions,
     global_code |-> c.bytecode,
     global_register_count |-> c.next_available_register,
     literals |-> c.literals]

(***************************************************************************)
(* vm::VMValue.  Object and Function values are shared handles: ref is the *)
(* index of the object in the heap, or of the function in the VM's table   *)
(* (0 is the global function, i >= 1 is functions[i - 1] of the program).  *)
(***************************************************************************)
NoLiteral    == [lt |-> "None", n |-> 0, s |-> ""]
VEmpty       == [tag |-> "Empty", lit |-> NoLiteral, ref |-> 0]
VLiteral(l)  == [tag |-> "Literal", lit |-> l, ref |-> 0]
VObject(h)   == [tag |-> "Object", lit |-> NoLiteral, ref |-> h]
VFunction(f) == [tag |-> "Function", lit |-> NoLiteral, ref |-> f]

IsNumber(v)  == v.tag = "Literal" /\ v.lit.lt \in {"Integer", "Float"}
IsBoolean(v) == v.tag = "Literal" /\ v.lit.lt = "Boolean"
IsString(v)  == v.tag = "Literal" /\ v.lit.lt = "String"

\* the strings of the model in lexicographic order (String::partial_cmp)
StringOrder == <<"", "a", "b", "fail", "pass", "print", "x", "y">>
StringRank(s) == IF \E i \in 1..Len(StringOrder) : StringOrder[i] = s
                 THEN CHOOSE i \in 1..Len(StringOrder) : StringOrder[i] = s
                 ELSE 0

\* impl PartialOrd for VMValue: "Less", "Equal", "Greater" or "None"
Ordering(a, b) == IF a < b THEN "Less" ELSE IF a = b THEN "Equal" ELSE "Greater"

\* f64::partial_cmp: None with a NaN, the infinities beyond every number
FloatOrdering(l, r) ==
    CASE l = LNaN \/ r = LNaN        -> "None"
      [] l.s = "inf" /\ r.s = "inf"  -> Ordering(l.n, r.n)
      [] l.s = "inf"                 -> IF l.n > 0 THEN "Greater" ELSE "Less"
      [] r.s = "inf"                 -> IF r.n > 0 THEN "Less" ELSE "Greater"
      [] OTHER                       -> Ordering(l.n, r.n)

partial_cmp(v, w) ==
    CASE v.tag = "Empty" /\ w.tag = "Empty" -> "Equal"
      [] v.tag = "Literal" /\ w.tag = "Literal" /\ v.lit.lt = w.lit.lt ->
            IF v.lit.lt = "String"
            THEN IF v.lit.s = w.lit.s THEN "Equal"
                 ELSE Ordering(StringRank(v.lit.s), StringRank(w.lit.s))
            ELSE IF v.lit.lt = "Float" THEN FloatOrdering(v.lit, w.lit)
            ELSE Ordering(v.lit.n, w.lit.n)
      [] OTHER -> "None"

\* impl_binary_comparator: `lhs $x rhs` through PartialEq / PartialOrd
compare(op, v, w) ==
    CASE op = "Equals"              -> partial_cmp(v, w) = "Equal"
      [] op = "NotEquals"           -> partial_cmp(v, w) # "Equal"
      [] op = "GreaterThan"         -> partial_cmp(v, w) = "Greater"
      [] op = "GreaterThanOrEquals" -> partial_cmp(v, w) \in {"Greater", "Equal"}
      [] op = "LessThan"            -> partial_cmp(v, w) = "Less"
      [] op = "LessThanOrEquals"    -> partial_cmp(v, w) \in {"Less", "Equal"}

\* integer division of Rust: truncation toward zero
TruncDiv(a, b) == IF (a >= 0) = (b > 0) THEN a \div b
                  ELSE -((IF a < 0 THEN -a ELSE a) \div (IF b < 0 THEN -b ELSE b))

IntegerOp(op, a, b) == CASE op = "Add" -> a + b
                         [] op = "Sub" -> a - b
                         [] op = "Mul" -> a * b
                         [] op = "Div" -> TruncDiv(a, b)

\* floats are counts of halves; a product or quotient is exact when it is a
\* multiple of one half
FloatOp(op, a, b) == CASE op = "Add" -> a + b
                       [] op = "Sub" -> a - b
                       [] op = "Mul" -> TruncDiv(a * b, 2)
                       [] op = "Div" -> TruncDiv(2 * a, b)

Halves(lit) == IF lit.lt = "Float" THEN lit.n ELSE 2 * lit.n

\* `as f64`: the Float an operand is taken as
AsFloat(lit) == IF lit.lt = "Float" THEN lit ELSE LFloat(2 * lit.n)

Sign(n) == IF n < 0 THEN -1 ELSE 1

\* f64 arithmetic: on two numbers FloatOp, a division by zero giving an
\* infinity (NaN for 0.0 / 0.0), and the rules of the infinities and NaN
float_op(op, l, r) ==
    CASE l = LNaN \/ r = LNaN -> LNaN
      [] l.s = "" /\ r.s = "" ->
            IF op = "Div" /\ r.n = 0
            THEN IF l.n = 0 THEN LNaN ELSE LInfinity(Sign(l.n))
            ELSE LFloat(FloatOp(op, l.n, r.n))
      [] op \in {"Add", "Sub"} ->
            LET rs == IF op = "Sub" THEN -r.n ELSE r.n
            IN IF l.s = "inf" /\ r.s = "inf"
               THEN IF l.n = rs THEN l ELSE LNaN
               ELSE IF l.s = "inf" THEN l ELSE LInfinity(Sign(rs))
      [] op = "Mul" ->
            IF l.n = 0 \/ r.n = 0 THEN LNaN ELSE LInfinity(Sign(l.n) * Sign(r.n))
      [] op = "Div" ->
            IF l.s = "inf" /\ r.s = "inf" THEN LNaN
            ELSE IF l.s = "inf" THEN LInfinity(l.n * Sign(r.n))
            ELSE LFloat(0)

\* variant: the result takes the kind of the left operand
binary_op_kind_of_lhs(op, l, r) ==
    IF l.lt = "Integer"
    THEN LInteger(IF op = "Div" /\ TruncDiv(Halves(r), 2) = 0 THEN 0
                  ELSE IntegerOp(op, l.n, TruncDiv(Halves(r), 2)))
    ELSE float_op(op, AsFloat(l), AsFloat(r))

\* impl_binary_op on two numeric literals: Integer only for two Integers
binary_op(op, l, r) ==
    IF l.lt = "Integer" /\ r.lt = "Integer"
    THEN LInteger(IntegerOp(op, l.n, r.n))
    ELSE float_op(op, AsFloat(l), AsFloat(r))

(***************************************************************************)
(* The native functions: those registered with define_native_function by   *)
(* tests/vm.rs, and the standard library (stdlib/mod.rs).                  *)
(***************************************************************************)
RegisteredNatives == {"test", "test_function"}
StandardLibrary   == {"print"}

\* variant: every name is taken to be that of a native
has_native_function_always(name) == TRUE

\* `native_functions.get(name).or_else(|| STANDARD_LIBRARY.get(name))` is Some
has_native_function(name) == name \in RegisteredNatives \cup StandardLibrary

\* Option<VMValue> returned by the native: has_value is Some / None
native_result(name, args) ==
    IF name = "test"
    THEN [has_value |-> TRUE, value |-> VLiteral(LBoolean(TRUE))]
    ELSE [has_value |-> FALSE, value |-> VEmpty]

(***************************************************************************)
(* The programs the model compiles and runs: bounded families of statement *)
(* trees, each selected by a tuple <<family, p, q, r>>.                    *)
(***************************************************************************)
\* largest integer argument passed to a function
MaxArg == 3
\* largest number of statements in an if / else / block body
MaxBody == 2
\* deepest block nesting and deepest chain of calling functions
MaxDepth == 2

Args == 0..MaxArg

FunctionNames == <<"f1", "f2", "f3", "f4", "f5">>
LocalNames    == <<"t1", "t2", "t3", "t4", "t5">>
ElseNames     == <<"e1", "e2", "e3", "e4", "e5">>

\* the expressions a function of (a, b) returns in the "call" family
ReturnExprs ==
    <<EVariable("a"),
      EVariable("b"),
      EInfix("Plus", EVariable("a"), EVariable("b")),
      EInfix("Minus", EVariable("a"), EVariable("b")),
      EInfix("Multiply", EVariable("a"), EVariable("b")),
      EInfix("Multiply", EInfix("Plus", EVariable("a"), EVariable("b")), EVariable("a")),
      EPrefix("Minus", EVariable("a")),
      EInt(7),
      EPrefix("Not", EInfix("GreaterThan", EVariable("a"), EVariable("b"))),
      EInfix("Plus", EInfix("Plus", EInt(2), EInt(3)), EVariable("b"))>>

\* fn f1(a, b) { return E } let r = f1(A, B); print(r);
CallProgram(e, A, B) ==
    <<SFunction("f1", <<"a", "b">>, SBlock(<<SReturn(ReturnExprs[e])>>)),
      SLet("r", EFunctionCall("f1", <<EInt(A), EInt(B)>>), FALSE),
      SExpression(EFunctionCall("print", <<EVariable("r")>>))>>

\* a chain of functions f1 .. fd, each calling the one before it twice;
\* f1 returns a + 1 (returns == 1) or nothing (returns == 0)
RECURSIVE ChainFunctions(_, _)
ChainFunctions(d, returns) ==
    IF d = 1
    THEN <<SFunction("f1", <<"a">>,
              SBlock(IF returns = 1
                     THEN <<SReturn(EInfix("Plus", EVariable("a"), EInt(1)))>>
                     ELSE <<SLet("z", EInt(1), TRUE)>>))>>
    ELSE Append(ChainFunctions(d - 1, returns),
                SFunction(FunctionNames[d], <<"a">>,
                   SBlock(<<SLet("u", EFunctionCall(FunctionNames[d - 1],
                                                    <<EVariable("a")>>), FALSE),
                            SLet("pad", EInt(9), FALSE),
                            SReturn(EFunctionCall(FunctionNames[d - 1],
                                                  <<EVariable("u")>>))>>)))

\* let x = 5; fn f1.. fd; let r = fd(A); let s = r + x;
ChainProgram(d, A, returns) ==
    <<SLet("x", EInt(5), FALSE)>> \o ChainFunctions(d, returns) \o
    <<SLet("r", EFunctionCall(FunctionNames[d], <<EInt(A)>>), FALSE),
      SLet("s", EInfix("Plus", EVariable("x"), EInt(1)), FALSE)>>

\* fn f1(n) { if n > 0 { return f1(n - 1) } return 0 } let r = f1(A);
RecursionProgram(A) ==
    <<SFunction("f1", <<"n">>,
         SBlock(<<SIf(EInfix("GreaterThan", EVariable("n"), EInt(0)),
                      SBlock(<<SReturn(EFunctionCall("f1",
                                 <<EInfix("Minus", EVariable("n"), EInt(1))>>))>>),
                      NoElse),
                  SReturn(EInt(0))>>)),
      SLet("r", EFunctionCall("f1", <<EInt(A)>>), FALSE)>>

\* n statements `let <name i> = i;`, every second one followed by a native call
RECURSIVE Lets(_, _)
Lets(names, n) ==
    IF n = 0 THEN <<>>
    ELSE Lets(names, n - 1) \o
         (IF n % 2 = 0
          THEN <<SLet(names[n], EInt(n), FALSE),
                 SExpression(EFunctionCall("print", <<EVariable(names[n])>>))>>
          ELSE <<SLet(names[n], EInt(n), FALSE)>>)

\* let c = <cond>; if c { T } [else { E }] let after = 0;
\* els = 0: no else; els = n + 1: an else body of n statements
IfProgram(cond, nthen, els) ==
    <<SLet("c", EBool(cond = 1), FALSE),
      SIf(EVariable("c"), SBlock(Lets(LocalNames, nthen)),
          IF els = 0 THEN NoElse ELSE SBlock(Lets(ElseNames, els - 1))),
      SLet("after", EInt(0), FALSE)>>

\* two sibling blocks of n1 and n2 declarations, in global code (where = 0) or
\* in the body of a function (where = 1)
BlocksProgram(n1, n2, where) ==
    LET blocks == <<SBlock(Lets(LocalNames, n1)), SBlock(Lets(ElseNames, n2))>>
    IN IF where = 0 THEN blocks
       ELSE <<SFunction("f1", <<"a">>, SBlock(blocks)),
              SExpression(EFunctionCall("f1", <<EInt(1)>>))>>

LiteralChoices == <<LInteger(3), LInteger(4), LString("print"), LString("x"),
                    LBoolean(TRUE), LFloat(6)>>

\* let a = L1; let b = L2; let o = {x: L3}; print(L1);
LiteralProgram(l1, l2, l3) ==
    <<SLet("a", ELiteral(LiteralChoices[l1]), FALSE),
      SLet("b", ELiteral(LiteralChoices[l2]), FALSE),
      SLet("o", EObject(<<[name |-> "x", value |-> ELiteral(LiteralChoices[l3])]>>), FALSE),
      SExpression(EFunctionCall("print", <<ELiteral(LiteralChoices[l1])>>))>>

RECURSIVE Nest(_, _)
Nest(body, depth) == IF depth = 0 THEN body ELSE <<SBlock(Nest(body, depth - 1))>>

Declare(kind, name, v) == CASE kind = 1 -> SConst(name, EInt(v))
                            [] kind = 2 -> SLet(name, EInt(v), FALSE)
                            [] kind = 3 -> SLet(name, EInt(v), TRUE)

\* <decl> x = 1; { ... { [<shadow decl> x = 5;] x = 2; let u = -x; } ... } let w = -x;
\* decl, shadow: 1 const, 2 let, 3 let mut; shadow = 0: no inner declaration
MutationProgram(decl, depth, shadow) ==
    <<Declare(decl, "x", 1)>> \o
    Nest((IF shadow = 0 THEN <<>> ELSE <<Declare(shadow, "x", 5)>>) \o
         <<SReassignment("x", EInt(2)),
           SLet("u", EPrefix("Minus", EVariable("x")), FALSE)>>, depth) \o
    <<SLet("w", EPrefix("Minus", EVariable("x")), FALSE)>>

\* <pad declarations> let mut x = 0; loop { if x > bound { break; } x = x + 1; }
LoopProgram(pad, bound) ==
    Lets(LocalNames, pad) \o
    <<SLet("x", EInt(0), TRUE),
      SLoop(SBlock(<<SIf(EInfix("GreaterThan", EVariable("x"), EInt(bound)),
                         SBlock(<<SBreak>>), NoElse),
                     SReassignment("x", EInfix("Plus", EVariable("x"), EInt(1)))>>))>>

\* let o = {x: A}; let p = o; p.x = B; let r = o.x; return r; let y = 1;
ObjectProgram(A, B) ==
    <<SLet("o", EObject(<<[name |-> "x", value |-> EInt(A)]>>), FALSE),
      SLet("p", EVariable("o"), FALSE),
      SObjectMutation(<<"p", "x">>, EInt(B)),
      SLet("r", EObjectAccess(<<"o", "x">>), FALSE),
      SReturn(EVariable("r")),
      SLet("y", EInt(1), FALSE)>>

\* two holders of one object, a write of x through one and reads through both:
\*   0: let o = {x: A}; let p = o;              p.x = B;       r = o.x; r2 = p.x
\*   1: fn f1(a) { a.x = B; } let o = {x: A};   f1(o);         r = o.x; r2 = o.x
\*   2: let o = {x: A}; let q = {inner: o};     q.inner.x = B; r = o.x; r2 = q.inner.x
\*   3: let o = {x: A}; let mut p = {x: 0}; p = o;  o.x = B;   r = p.x; r2 = o.x
AliasProgram(A, B, shape) ==
    LET o == SLet("o", EObject(<<[name |-> "x", value |-> EInt(A)]>>), FALSE)
        reads(first, second) == <<SLet("r", EObjectAccess(first), FALSE),
                                  SLet("r2", EObjectAccess(second), FALSE)>>
    IN CASE shape = 0 ->
              <<o, SLet("p", EVariable("o"), FALSE),
                SObjectMutation(<<"p", "x">>, EInt(B))>>
              \o reads(<<"o", "x">>, <<"p", "x">>)
         [] shape = 1 ->
              <<SFunction("f1", <<"a">>,
                          SBlock(<<SObjectMutation(<<"a", "x">>, EInt(B))>>)),
                o, SExpression(EFunctionCall("f1", <<EVariable("o")>>))>>
              \o reads(<<"o", "x">>, <<"o", "x">>)
         [] shape = 2 ->
              <<o, SLet("q", EObject(<<[name |-> "inner", value |-> EVariable("o")]>>), FALSE),
                SObjectMutation(<<"q", "inner", "x">>, EInt(B))>>
              \o reads(<<"o", "x">>, <<"q", "inner", "x">>)
         [] shape = 3 ->
              <<o, SLet("p", EObject(<<[name |-> "x", value |-> EInt(0)]>>), TRUE),
                SReassignment("p", EVariable("o")),
                SObjectMutation(<<"o", "x">>, EInt(B))>>
              \o reads(<<"p", "x">>, <<"o", "x">>)

\* the numeric literals of the arithmetic programs: 0, 1, 2, 7 and 0.0, 0.5,
\* 1.0, 2.5
Numbers == <<LInteger(0), LInteger(1), LInteger(2), LInteger(7),
             LFloat(0), LFloat(1), LFloat(2), LFloat(5)>>

ArithmeticOperators == <<"Plus", "Minus", "Multiply", "Divide">>

\* whether l op r is a whole number of halves, so that FloatOp is exact on it
Exact(op, l, r) ==
    CASE l.lt = "Integer" /\ r.lt = "Integer" -> TRUE
      [] op = "Multiply" -> (Halves(l) * Halves(r)) % 2 = 0
      [] op = "Divide"   -> Halves(r) = 0 \/ (2 * Halves(l)) % Halves(r) = 0
      [] OTHER           -> TRUE

\* let r = L1 <op> L2;
ArithmeticProgram(op, l, r) ==
    <<SLet("r", EInfix(ArithmeticOperators[op], ELiteral(Numbers[l]), ELiteral(Numbers[r])),
           FALSE)>>

NativeNames == <<"print", "test", "test_function", "missing", "x">>

\* let r = <name>(A); let after = 1;
NativeProgram(name, A) ==
    <<SLet("r", EFunctionCall(NativeNames[name], <<EInt(A)>>), FALSE),
      SLet("after", EInt(1), FALSE)>>

PadNames == <<"p1", "p2", "p3", "p4", "p5", "p6">>

\* n statements `let <pad name i> = i;`: one LoadLiteral each
Pads(n) ==
    [i \in 1..n |-> SLet(PadNames[((i - 1) % Len(PadNames)) + 1], EInt(i), FALSE)]

\* loop { <inner> if v > bound { break; } v = v + 1; }
CountingLoop(v, bound, inner) ==
    SLoop(SBlock(inner \o
        <<SIf(EInfix("GreaterThan", EVariable(v), EInt(bound)), SBlock(<<SBreak>>), NoElse),
          SReassignment(v, EInfix("Plus", EVariable(v), EInt(1)))>>))

\* <pad declarations> let mut x = 0; loop { ... }, by shape:
\*   0: the loop is the last statement of the global code
\*   1: the loop is followed by `let after = 5; let last = 9;`
\*   2: the loop holds `let mut y = 0;` and a loop counting y, and is followed
\*      as in shape 1
\*   3: all of shape 1 sits in the body of f1, which returns x
\*   4: all of shape 1 sits in the body of an `if true`
LoopsProgram(pad, bound, shape) ==
    LET head == Pads(pad) \o <<SLet("x", EInt(0), TRUE)>>
        tail == <<SLet("after", EInt(5), FALSE), SLet("last", EInt(9), FALSE)>>
        plain == head \o <<CountingLoop("x", bound, <<>>)>>
        nested == head \o
                  <<CountingLoop("x", bound,
                       <<SLet("y", EInt(0), TRUE), CountingLoop("y", bound, <<>>)>>)>>
    IN CASE shape = 0 -> plain
         [] shape = 1 -> plain \o tail
         [] shape = 2 -> nested \o tail
         [] shape = 3 -> <<SFunction("f1", <<"a">>,
                              SBlock(plain \o tail \o <<SReturn(EVariable("x"))>>)),
                           SLet("r", EFunctionCall("f1", <<EInt(1)>>), FALSE)>>
         [] shape = 4 -> <<SLet("c", EBool(TRUE), FALSE),
                           SIf(EVariable("c"), SBlock(plain \o tail), NoElse),
                           SLet("end", EInt(8), FALSE)>>

\* let g = 7; let mut h = 2; fn f1(a) { h = a; return g } let r = f1(A);
OuterProgram(A) ==
    <<SLet("g", EInt(7), FALSE),
      SLet("h", EInt(2), TRUE),
      SFunction("f1", <<"a">>,
         SBlock(<<SReassignment("h", EVariable("a")), SReturn(EVariable("g"))>>)),
      SLet("r", EFunctionCall("f1", <<EInt(A)>>), FALSE)>>

\* the operands of the programs the typechecker would reject: an object, the
\* unwritten result of a native that returns nothing (Empty), a string, an
\* integer and a boolean
MixedOperands == <<EVariable("o"), EVariable("e"), EStr("x"), EInt(1), EBool(TRUE)>>
MixedOperators == <<"Plus", "Divide", "Equal", "NotEqual", "LessThan",
                    "GreaterThanOrEqual">>

\* let o = {x: 1}; let e = test_function(0); let r = <L> <op> <R>; let after = 1;
MixedProgram(op, l, r) ==
    <<SLet("o", EObject(<<[name |-> "x", value |-> EInt(1)]>>), FALSE),
      SLet("e", EFunctionCall("test_function", <<EInt(0)>>), FALSE),
      SLet("r", EInfix(MixedOperators[op], MixedOperands[l], MixedOperands[r]), FALSE),
      SLet("after", EInt(1), FALSE)>>

\* one instruction that inspects the kind of a register, applied to <E>:
\*   0: if <E> { let a = 1; }            JumpIfFalse
\*   1: let v = <E>; let r = v.x;        GetObjectField
\*   2: let v = <E>; v.x = 2;            SetObjectField
\*   3: let r = !<E>;                    PrefixNot
\*   4: let r = -<E>;                    PrefixSub
\* after `let o = {x: 1}; let e = test_function(0);` and before `let after = 1;`
FaultProgram(shape, operand) ==
    LET E == MixedOperands[operand]
        inspect ==
            CASE shape = 0 -> <<SIf(E, SBlock(<<SLet("a", EInt(1), FALSE)>>), NoElse)>>
              [] shape = 1 -> <<SLet("v", E, FALSE),
                                SLet("r", EObjectAccess(<<"v", "x">>), FALSE)>>
              [] shape = 2 -> <<SLet("v", E, FALSE),
                                SObjectMutation(<<"v", "x">>, EInt(2))>>
              [] shape = 3 -> <<SLet("r", EPrefix("Not", E), FALSE)>>
              [] shape = 4 -> <<SLet("r", EPrefix("Minus", E), FALSE)>>
    IN <<SLet("o", EObject(<<[name |-> "x", value |-> EInt(1)]>>), FALSE),
         SLet("e", EFunctionCall("test_function", <<EInt(0)>>), FALSE)>>
       \o inspect \o <<SLet("after", EInt(1), FALSE)>>

\* fn f1(a) { <U8Max - MaxBody + n declarations `let p = ..;`> }: the parameter
\* and each declaration take one register
WideProgram(n) ==
    <<SFunction("f1", <<"a">>, SBlock(Pads(U8Max - MaxBody + n)))>>

\* the builds a program is compiled in: the programs that run out of register
\* indices are compiled with and without overflow checks, the others never
\* overflow and behave the same in both
BuildProfiles(in) == IF in[1] = "wide" THEN BOOLEAN ELSE {TRUE}

\* one use of the name x:
\*   0: let r = x;       1: let r = x + 1;    2: print(x);     3: let r = x.f;
\*   4: x.f = 1;         5: if x { }          6: return x;     7: x = 2;
UseOfX(use) ==
    CASE use = 0 -> SLet("r", EVariable("x"), FALSE)
      [] use = 1 -> SLet("r", EInfix("Plus", EVariable("x"), EInt(1)), FALSE)
      [] use = 2 -> SExpression(EFunctionCall("print", <<EVariable("x")>>))
      [] use = 3 -> SLet("r", EObjectAccess(<<"x", "f">>), FALSE)
      [] use = 4 -> SObjectMutation(<<"x", "f">>, EInt(1))
      [] use = 5 -> SIf(EVariable("x"), SBlock(<<>>), NoElse)
      [] use = 6 -> SReturn(EVariable("x"))
      [] use = 7 -> SReassignment("x", EInt(2))

\* `let mut x = <a value the use can work on>;`
DeclarationOfX(use) ==
    SLet("x", CASE use \in {3, 4} -> EObject(<<[name |-> "f", value |-> EInt(0)]>>)
                [] use = 5       -> EBool(TRUE)
                [] OTHER         -> EInt(1),
         TRUE)

\* a use of x after a declaration of x placed
\*   0: nowhere                           1: { let mut x; } <use>
\*   2: if true { let mut x; } <use>      3: fn f1(a) { let mut x; } <use>
\*   4: loop { let mut x; break; } <use>
\*   5: let mut x; <use>                  6: { let mut x; { <use> } }
\* 0..4 leave x without a binding at the use, 5 and 6 bind it
UnboundProgram(place, use) ==
    LET x == DeclarationOfX(use)
        u == UseOfX(use)
    IN CASE place = 0 -> <<u>>
         [] place = 1 -> <<SBlock(<<x>>), u>>
         [] place = 2 -> <<SIf(EBool(TRUE), SBlock(<<x>>), NoElse), u>>
         [] place = 3 -> <<SFunction("f1", <<"a">>, SBlock(<<x>>)), u>>
         [] place = 4 -> <<SLoop(SBlock(<<x, SBreak>>)), u>>
         [] place = 5 -> <<x, u>>
         [] place = 6 -> <<SBlock(<<x, SBlock(<<u>>)>>)>>

\* loop { if true { break; } }
InnerLoop == SLoop(SBlock(<<SIf(EBool(TRUE), SBlock(<<SBreak>>), NoElse)>>))

\* <p declarations> loop { <q declarations> break; loop { if true { break; } } }
BreaksProgram(p, q) ==
    Pads(p) \o <<SLoop(SBlock(Pads(q) \o <<SBreak, InnerLoop>>))>>

\* the truth value chosen for condition i of a chain: bit i of mask
ConditionHolds(mask, i) == (mask \div (2 ^ (i - 1))) % 2 = 1

\* condition i of a chain: `test(i)`, a native that returns true and whose
\* call is logged, or `!test(i)`
ChainCondition(mask, i) ==
    IF ConditionHolds(mask, i) THEN EFunctionCall("test", <<EInt(i)>>)
    ELSE EPrefix("Not", EFunctionCall("test", <<EInt(i)>>))

\* if <c i> { print(i); } else if <c i+1> { print(i + 1); } ... [else { print(0); }]
RECURSIVE ElseIfChain(_, _, _, _)
ElseIfChain(i, n, mask, els) ==
    SIf(ChainCondition(mask, i),
        SBlock(<<SExpression(EFunctionCall("print", <<EInt(i)>>))>>),
        IF i < n THEN ElseIfChain(i + 1, n, mask, els)
        ELSE IF els = 1 THEN SBlock(<<SExpression(EFunctionCall("print", <<EInt(0)>>))>>)
        ELSE NoElse)

\* <chain of n conditions> print(9);
ElseIfProgram(n, mask, els) ==
    <<ElseIfChain(1, n, mask, els),
      SExpression(EFunctionCall("print", <<EInt(9)>>))>>

\* argument i of a native call: the variable v for i = 2, else the literal 10 + i
NativeArgument(i) == IF i = 2 THEN EVariable("v") ELSE EInt(10 + i)

\* let v = 5; let r = <name>(<n arguments>); let after = 1;
NativeCallBody(name, n) ==
    <<SLet("v", EInt(5), FALSE),
      SLet("r", EFunctionCall(NativeNames[name], [i \in 1..n |-> NativeArgument(i)]), FALSE),
      SLet("after", EInt(1), FALSE)>>

\* the call in global code (place 0), or in the body of f1 called after two
\* declarations, so that the window does not start at register 0 (place 1)
NativeArgsProgram(name, n, place) ==
    IF place = 0 THEN NativeCallBody(name, n)
    ELSE Pads(2) \o <<SFunction("f1", <<>>, SBlock(NativeCallBody(name, n))),
                      SExpression(EFunctionCall("f1", <<>>))>>

PrintX == SExpression(EFunctionCall("print", <<EVariable("x")>>))

\* the statements of the block at nesting level i:
\*   print(x); [let x = 10 + i;] print(x); [{ <level i + 1> } print(x);]
\* the declaration is present when bit i of mask is set
RECURSIVE ShadowLevel(_, _, _)
ShadowLevel(i, d, mask) ==
    <<PrintX>>
    \o (IF ConditionHolds(mask, i) THEN <<SLet("x", EInt(10 + i), FALSE)>> ELSE <<>>)
    \o <<PrintX>>
    \o (IF i < d THEN <<SBlock(ShadowLevel(i + 1, d, mask)), PrintX>> ELSE <<>>)

\* let x = 10; print(x); [{ <level 1> } print(x);]
ShadowProgram(d, mask) ==
    <<SLet("x", EInt(10), FALSE), PrintX>>
    \o (IF d >= 1 THEN <<SBlock(ShadowLevel(1, d, mask)), PrintX>> ELSE <<>>)

\* <decl> x = 1; { [<shadow decl> x = 5;] [x = 2;] print(x); } [x = 3;] print(x);
\* decl, shadow as in MutationProgram; where = 0: only `x = 2` is present,
\* 1: only `x = 3`, 2: both
NearestProgram(decl, shadow, where) ==
    <<Declare(decl, "x", 1),
      SBlock((IF shadow = 0 THEN <<>> ELSE <<Declare(shadow, "x", 5)>>)
             \o (IF where \in {0, 2} THEN <<SReassignment("x", EInt(2))>> ELSE <<>>)
             \o <<PrintX>>)>>
    \o (IF where \in {1, 2} THEN <<SReassignment("x", EInt(3))>> ELSE <<>>)
    \o <<PrintX>>

DeclaredParameters == <<"a", "b", "c", "d", "e">>

\* fn f2(<n parameters>) { let t = 1; let t1 = -a; let t2 = -b; ... }
\* (the literal 1 is the one the statement after the declaration interns, so
\* the literal ids of the enclosing code do not depend on the declaration)
DeclaredFunction(n) ==
    SFunction("f2", [i \in 1..n |-> DeclaredParameters[i]],
              SBlock(<<SLet("t", EInt(1), FALSE)>> \o
                     [i \in 1..n |-> SLet(LocalNames[i],
                                          EPrefix("Minus", EVariable(DeclaredParameters[i])),
                                          FALSE)]))

\* <p declarations> [<declaration of f2>] let after = 1;  placed
\*   0: in the global code
\*   1: in a block, between `let x = 0;` and `let last = 9;`
\*   2: in the body of fn f1(a), followed by `let last = 9;`
DeclarationProgram(p, n, place, declared) ==
    LET enclosing == Pads(p) \o (IF declared THEN <<DeclaredFunction(n)>> ELSE <<>>)
                     \o <<SLet("after", EInt(1), FALSE)>>
        last == SLet("last", EInt(9), FALSE)
    IN CASE place = 0 -> enclosing
         [] place = 1 -> <<SLet("x", EInt(0), FALSE), SBlock(enclosing), last>>
         [] place = 2 -> <<SFunction("f1", <<"a">>, SBlock(enclosing)), last>>

\* the callee names of the "later" family: no native is named f1, natives
\* are named test and print
LaterNames == <<"f1", "test", "print">>

\* fn <name>(a) { return a; }
LaterFunction(name) == SFunction(name, <<"a">>, SBlock(<<SReturn(EVariable("a"))>>))

\* a call `let r = <name>(<n arguments>);` whose callee is, by shape,
\*   0: never declared
\*   1: declared after the call, in the same scope
\*   2: declared in the global scope after the block that holds the call
\*   3: declared in a block that has been left before the call
LaterProgram(name, n, shape) ==
    LET call == SLet("r", EFunctionCall(LaterNames[name],
                                        [i \in 1..n |-> NativeArgument(i)]), FALSE)
        v == SLet("v", EInt(5), FALSE)
        after == SLet("after", EInt(1), FALSE)
    IN CASE shape = 0 -> <<v, call, after>>
         [] shape = 1 -> <<v, call, LaterFunction(LaterNames[name]), after>>
         [] shape = 2 -> <<v, SBlock(<<call>>), LaterFunction(LaterNames[name]), after>>
         [] shape = 3 -> <<v, SBlock(<<LaterFunction(LaterNames[name])>>), call, after>>

FieldNames == <<"x", "y">>

\* let o = {x: 1}; let r1 = o.y; o.<k> = 2; let r2 = o.<k>;
\* [o.<k2> = 3;] let r3 = o.<k>;      (k2 = 0: no second write)
FieldsProgram(k, k2) ==
    <<SLet("o", EObject(<<[name |-> "x", value |-> EInt(1)]>>), FALSE),
      SLet("r1", EObjectAccess(<<"o", "y">>), FALSE),
      SObjectMutation(<<"o", FieldNames[k]>>, EInt(2)),
      SLet("r2", EObjectAccess(<<"o", FieldNames[k]>>), FALSE)>>
    \o (IF k2 = 0 THEN <<>> ELSE <<SObjectMutation(<<"o", FieldNames[k2]>>, EInt(3))>>)
    \o <<SLet("r3", EObjectAccess(<<"o", FieldNames[k]>>), FALSE)>>

\* largest array index written
MaxIndex == 2

(***************************************************************************)
(* Programs handed to VM::new as a CompiledProgram built by hand: the      *)
(* fields of CompiledProgram are public, and the array instructions are    *)
(* emitted by no statement the compiler accepts.                           *)
(***************************************************************************)
AssembledFamilies == {"array"}

\* registers: 1 the array, 2..4 the indices i1, i2, g, 5 and 6 the values
\*   a = []; r7 = a[g]; a[i1] = 11; r8 = a[g]; a[i2] = 12; r9 = a[g];
\*   r10 = a[i1]; r11 = a[i2];
ArrayProgram(i1, i2, g) ==
    [functions |-> <<>>,
     global_code |->
        <<IAllocateArray(1),
          ILoadLiteral(2, 0), ILoadLiteral(3, 1), ILoadLiteral(4, 2),
          ILoadLiteral(5, 3), ILoadLiteral(6, 4),
          IGetArrayIndex(1, 4, 7),
          ISetArrayIndex(1, 2, 5),
          IGetArrayIndex(1, 4, 8),
          ISetArrayIndex(1, 3, 6),
          IGetArrayIndex(1, 4, 9),
          IGetArrayIndex(1, 2, 10),
          IGetArrayIndex(1, 3, 11)>>,
     global_register_count |-> 12,
     literals |-> <<LInteger(i1), LInteger(i2), LInteger(g),
                    LInteger(11), LInteger(12)>>]

Assembled(in) == ArrayProgram(in[2], in[3], in[4])

ComparisonOperators == <<"Equal", "NotEqual", "GreaterThan", "GreaterThanOrEqual",
                         "LessThan", "LessThanOrEqual">>

\* let r = L1 <comparison> L2;  over the literals of Numbers
ComparisonProgram(op, l, r) ==
    <<SLet("r", EInfix(ComparisonOperators[op], ELiteral(Numbers[l]), ELiteral(Numbers[r])),
           FALSE)>>

\* <decl> a = 1; let mut b = <a, or a + 0>; b = 2; print(a); print(b);
\* decl as in MutationProgram; via = 0: b is initialised with the variable a,
\* via = 1: with the expression a + 0
CopyProgram(decl, via) ==
    <<Declare(decl, "a", 1),
      SLet("b", IF via = 0 THEN EVariable("a")
                ELSE EInfix("Plus", EVariable("a"), EInt(0)), TRUE),
      SReassignment("b", EInt(2)),
      SExpression(EFunctionCall("print", <<EVariable("a")>>)),
      SExpression(EFunctionCall("print", <<EVariable("b")>>))>>

\* print(1); <return 7;> print(2); with the return placed
\*   0: in the global code            1: { return 7; }
\*   2: if true { return 7; }         3: fn f1(a) { return 7; } f1(0);
ReturnProgram(place) ==
    LET r == SReturn(EInt(7))
        p(v) == SExpression(EFunctionCall("print", <<EInt(v)>>))
    IN <<p(1)>> \o
       (CASE place = 0 -> <<r>>
          [] place = 1 -> <<SBlock(<<r>>)>>
          [] place = 2 -> <<SIf(EBool(TRUE), SBlock(<<r>>), NoElse)>>
          [] place = 3 -> <<SFunction("f1", <<"a">>, SBlock(<<r>>)),
                            SExpression(EFunctionCall("f1", <<EInt(0)>>))>>) \o
       <<p(2)>>

\* fn f1(a) { <k declarations> } <RegisterCapacity - 2 * (MaxBody + 3) + n
\* declarations> f1(0);  the global code takes nearly the whole register
\* array, and the window of f1 starts above it
DeepProgram(n, k) ==
    <<SFunction("f1", <<"a">>, SBlock(Pads(k)))>> \o
    Pads(RegisterCapacity - 2 * (MaxBody + 3) + n) \o
    <<SExpression(EFunctionCall("f1", <<EInt(0)>>))>>

\* fn f1(a) { return v }
ConstantFunction(v) == SFunction("f1", <<"a">>, SBlock(<<SReturn(EInt(v))>>))

\* print(f1(0));
PrintCallOfF1 == SExpression(EFunctionCall("print", <<EFunctionCall("f1", <<EInt(0)>>)>>))

\* two functions named f1, the first returning 1 and the second 2, and a call
\* of f1; <pad> declarations precede the call
\*   0: fn f1 {1}  print(f1(0));
\*   1: fn f1 {1}  { fn f1 {2} }  print(f1(0));
\*   2: fn f1 {1}  { fn f1 {2}  print(f1(0)); }
\*   3: fn f1 {1}  fn f2(a) { fn f1 {2} }  print(f1(0));
\*   4: fn f1 {1}  if true { fn f1 {2} }  print(f1(0));
SameNameProgram(shape, pad) ==
    LET call == Pads(pad) \o <<PrintCallOfF1>>
    IN <<ConstantFunction(1)>> \o
       CASE shape = 0 -> call
         [] shape = 1 -> <<SBlock(<<ConstantFunction(2)>>)>> \o call
         [] shape = 2 -> <<SBlock(<<ConstantFunction(2)>> \o call)>>
         [] shape = 3 -> <<SFunction("f2", <<"a">>, SBlock(<<ConstantFunction(2)>>))>>
                         \o call
         [] shape = 4 -> <<SIf(EBool(TRUE), SBlock(<<ConstantFunction(2)>>), NoElse)>>
                         \o call

\* the value the function of the nearest enclosing scope returns
NearestF1(shape) == IF shape = 2 THEN 2 ELSE 1

Inputs ==
    ({"call"}   \X (1..Len(ReturnExprs)) \X Args \X Args) \cup
    ({"chain"}  \X (1..MaxDepth + 1) \X Args \X {0, 1}) \cup
    ({"rec"}    \X Args \X {0} \X {0}) \cup
    ({"if"}     \X {0, 1} \X (0..MaxBody) \X (0..MaxBody + 1)) \cup
    ({"blocks"} \X (1..MaxBody) \X (1..MaxBody) \X {0, 1}) \cup
    ({"lit"}    \X (1..Len(LiteralChoices)) \X (1..Len(LiteralChoices))
                \X (1..Len(LiteralChoices))) \cup
    ({"mut"}    \X {1, 2, 3} \X (0..MaxDepth) \X {0, 1, 2, 3}) \cup
    ({"loop"}   \X (0..MaxBody) \X Args \X {0}) \cup
    ({"object"} \X Args \X Args \X {0}) \cup
    ({"outer"}  \X Args \X {0} \X {0}) \cup
    ({"loops"}  \X Args \X (0..MaxDepth) \X (0..4)) \cup
    ({"alias"}  \X Args \X Args \X (0..3)) \cup
    ({"native"} \X (1..Len(NativeNames)) \X Args \X {0}) \cup
    ({"mixed"}  \X (1..Len(MixedOperators)) \X (1..Len(MixedOperands))
                \X (1..Len(MixedOperands))) \cup
    ({"fault"}  \X (0..4) \X (1..Len(MixedOperands)) \X {0}) \cup
    ({"wide"}   \X (0..MaxBody + 1) \X {0} \X {0}) \cup
    ({"unbound"} \X (0..6) \X (0..7) \X {0}) \cup
    ({"breaks"} \X (0..MaxBody) \X (0..MaxBody) \X {0}) \cup
    ({"copy"}   \X {1, 2, 3} \X {0, 1} \X {0}) \cup
    ({"return"} \X (0..3) \X {0} \X {0}) \cup
    ({"override"} \X (1..Len(NativeNames)) \X Args \X {0}) \cup
    ({"same"}   \X (0..4) \X (0..MaxBody) \X {0}) \cup
    ({"deep"}   \X (0..MaxBody + 3) \X {0, MaxBody + 1} \X {0}) \cup
    ({"cmp"}    \X (1..Len(ComparisonOperators)) \X (1..Len(Numbers))
                \X (1..Len(Numbers))) \cup
    ({"fields"} \X {1, 2} \X {0, 1, 2} \X {0}) \cup
    ({"array"}  \X (-1..MaxIndex) \X (0..MaxIndex) \X (-1..2 * MaxIndex + 2)) \cup
    ({"later"}  \X (1..Len(LaterNames)) \X Args \X (0..3)) \cup
    ({"decl"}   \X (0..MaxBody) \X Args \X {0, 1, 2}) \cup
    ({"nearest"} \X {1, 2, 3} \X {0, 1, 2, 3} \X {0, 1, 2}) \cup
    {in \in {"shadow"} \X (0..MaxDepth) \X (0..2 ^ MaxDepth - 1) \X {0} :
        in[3] < 2 ^ in[2]} \cup
    ({"nargs"}  \X {1, 2, 3} \X Args \X {0, 1}) \cup
    {in \in {"elseif"} \X (1..MaxDepth + 1) \X (0..2 ^ (MaxDepth + 1) - 1) \X {0, 1} :
        in[3] < 2 ^ in[2]} \cup
    {in \in {"arith"} \X (1..Len(ArithmeticOperators)) \X (1..Len(Numbers))
                      \X (1..Len(Numbers)) :
        Exact(ArithmeticOperators[in[2]], Numbers[in[3]], Numbers[in[4]])}

Program(in) ==
    CASE in[1] = "call"   -> CallProgram(in[2], in[3], in[4])
      [] in[1] = "chain"  -> ChainProgram(in[2], in[3], in[4])
      [] in[1] = "rec"    -> RecursionProgram(in[2])
      [] in[1] = "if"     -> IfProgram(in[2], in[3], in[4])
      [] in[1] = "blocks" -> BlocksProgram(in[2], in[3], in[4])
      [] in[1] = "lit"    -> LiteralProgram(in[2], in[3], in[4])
      [] in[1] = "mut"    -> MutationProgram(in[2], in[3], in[4])
      [] in[1] = "loop"   -> LoopProgram(in[2], in[3])
      [] in[1] = "object" -> ObjectProgram(in[2], in[3])
      [] in[1] = "outer"  -> OuterProgram(in[2])
      [] in[1] = "loops"  -> LoopsProgram(in[2], in[3], in[4])
      [] in[1] = "alias"  -> AliasProgram(in[2], in[3], in[4])
      [] in[1] = "arith"  -> ArithmeticProgram(in[2], in[3], in[4])
      [] in[1] = "native" -> NativeProgram(in[2], in[3])
      [] in[1] = "mixed"  -> MixedProgram(in[2], in[3], in[4])
      [] in[1] = "fault"  -> FaultProgram(in[2], in[3])
      [] in[1] = "wide"   -> WideProgram(in[2])
      [] in[1] = "unbound" -> UnboundProgram(in[2], in[3])
      [] in[1] = "breaks" -> BreaksProgram(in[2], in[3])
      [] in[1] = "copy" -> CopyProgram(in[2], in[3])
      [] in[1] = "return" -> ReturnProgram(in[2])
      [] in[1] = "override" -> NativeProgram(in[2], in[3])
      [] in[1] = "same" -> SameNameProgram(in[2], in[3])
      [] in[1] = "deep" -> DeepProgram(in[2], in[3])
      [] in[1] = "cmp" -> ComparisonProgram(in[2], in[3], in[4])
      [] in[1] = "fields" -> FieldsProgram(in[2], in[3])
      [] in[1] = "array" -> <<>>
      [] in[1] = "later" -> LaterProgram(in[2], in[3], in[4])
      [] in[1] = "decl" -> DeclarationProgram(in[2], in[3], in[4], TRUE)
      [] in[1] = "nearest" -> NearestProgram(in[2], in[3], in[4])
      [] in[1] = "shadow" -> ShadowProgram(in[2], in[3])
      [] in[1] = "nargs" -> NativeArgsProgram(in[2], in[3], in[4])
      [] in[1] = "elseif" -> ElseIfProgram(in[2], in[3], in[4])

(***************************************************************************)
(* State.                                                                  *)
(*   input              the selected program                               *)
(*   compiler           the Compiler struct (after compile: its final      *)
(*                      state, from which the CompiledProgram is built)    *)
(*   status             "Source", "CompileError", "Compiled", "Running",   *)
(*                      "Ok", "InvalidOperation" (run returned Err) or     *)
(*                      "Panic" (unreachable!(), index out of bounds,      *)
(*                      arithmetic panic: the process aborts)              *)
(*   registers, base_register          vm::Registers                      *)
(*   saved_call_frames, current_function, ip   locals of the dispatch loop *)
(*   objects            the heap of shared objects (Rc<RefCell<Object>>)   *)
(*   output             the calls made to native functions, in order       *)
(*   call_log           history: what the VM looked like at each call that *)
(*                      has not returned yet                               *)
(*   executed           history: the (function, ip) pairs dispatched       *)
(***************************************************************************)
VARIABLES input, compiler, status, registers, base_register, saved_call_frames,
          current_function, ip, objects, output, call_log, executed

vars == <<input, compiler, status, registers, base_register, saved_call_frames,
          current_function, ip, objects, output, call_log, executed>>

vm_vars == <<registers, base_register, saved_call_frames, current_function, ip,
             objects, output, call_log, executed>>

\* the most native calls the history `output` records
MaxOutput == 8

program == CompiledProgram(compiler)

\* VM::new: the global code becomes the function "global"
global_function ==
    [name |-> "global", code |-> program.global_code,
     register_count |-> program.global_register_count]

FunctionOf(f) == IF f = 0 THEN global_function ELSE program.functions[f]

\* VM::define_native_function: the table of the natives the embedder has
\* registered before the run; in the "override" family also one named print
native_functions ==
    IF input[1] = "override" THEN RegisteredNatives \cup {"print"}
    ELSE RegisteredNatives

\* variant: the standard library is asked first
native_function_stdlib_first(name) ==
    [table |-> IF name \in StandardLibrary THEN "STANDARD_LIBRARY"
               ELSE "native_functions",
     name |-> name]

\* `self.native_functions.get(name).or_else(|| STANDARD_LIBRARY.get(name))`:
\* the function found, named by the table it comes from
native_function(name) ==
    [table |-> IF name \in native_functions THEN "native_functions"
               ELSE "STANDARD_LIBRARY",
     name |-> name]

\* `(native_function)(arg_values)`: the print the embedder registers is the
\* closure registered as test, |_| Some(true); the print of the standard
\* library returns None
call_native(function, args) ==
    IF function.table = "native_functions" /\ function.name = "print"
    THEN [has_value |-> TRUE, value |-> VLiteral(LBoolean(TRUE))]
    ELSE native_result(function.name, args)

Init ==
    /\ input \in Inputs
    /\ compiler \in {[NewCompiler EXCEPT !.overflow_checks = checks] :
                        checks \in BuildProfiles(input)}
    /\ status = "Source"
    /\ registers = [i \in 1..RegisterCapacity |-> VEmpty]
    /\ base_register = 0
    /\ saved_call_frames = <<>>
    /\ current_function = 0
    /\ ip = 0
    /\ objects = <<>>
    /\ output = <<>>
    /\ call_log = <<>>
    /\ executed = {}

\* Compiler::compile
Compile ==
    /\ status = "Source"
    /\ input[1] \notin AssembledFamilies
    /\ compiler' = compile(compiler, Program(input))
    /\ status' = IF compiler'.err = "Panic" THEN "Panic"
                 ELSE IF Failed(compiler') THEN "CompileError" ELSE "Compiled"
    /\ UNCHANGED <<input, vm_vars>>

\* a CompiledProgram put together field by field instead of compiled
Assemble ==
    /\ status = "Source"
    /\ input[1] \in AssembledFamilies
    /\ compiler' = [compiler EXCEPT
                       !.functions = Assembled(input).functions,
                       !.bytecode = Assembled(input).global_code,
                       !.next_available_register = Assembled(input).global_register_count,
                       !.literals = Assembled(input).literals]
    /\ status' = "Compiled"
    /\ UNCHANGED <<input, vm_vars>>

\* VM::new(program) and the prologue of run_with_registers_returned
Run ==
    /\ status = "Compiled"
    /\ status' = "Running"
    /\ registers' = [i \in 1..RegisterCapacity |-> VEmpty]
    /\ base_register' = 0
    /\ saved_call_frames' = <<>>
    /\ current_function' = 0
    /\ ip' = 0
    /\ UNCHANGED <<input, compiler, objects, output, call_log, executed>>

(***************************************************************************)
(* The dispatch loop.                                                      *)
(***************************************************************************)
Code  == FunctionOf(current_function).code
\* current_function.code[ip]
Fetch == Code[ip + 1]

Dispatch(ops) ==
    /\ status = "Running"
    /\ ip < Len(Code)
    /\ Fetch.op \in ops
    /\ executed' = executed \cup {<<current_function, ip>>}
    /\ UNCHANGED <<input, compiler>>

\* impl Index<Register> for Registers: registers[base_register + index]
InArray(index) == base_register + index < RegisterCapacity
Reg(index)     == registers[base_register + index + 1]
\* variant: a write that ignores the window base
SetAt_absolute(regs, base, index, value) == [regs EXCEPT ![index + 1] = value]
SetAt(regs, base, index, value) == [regs EXCEPT ![base + index + 1] = value]

\* the run ends here: with Err(InvalidOperation), or by a panic
Stop(how) ==
    /\ status' = how
    /\ UNCHANGED <<registers, base_register, saved_call_frames, current_function, ip,
                   objects, output, call_log>>

\* `if ip >= current_function.code.len() { break }` and Ok(registers)
Finish ==
    /\ status = "Running"
    /\ ip >= Len(Code)
    /\ status' = "Ok"
    /\ UNCHANGED <<input, compiler, vm_vars>>

\* variant: the window always moves by the global register count
WindowStep_global_only(frames) == global_function.register_count

\* the register count the window moves by: that of the function now running
\* when a frame is saved, else that of the global function
WindowStep(frames) ==
    IF frames # <<>> THEN frames[Len(frames)].register_count
    ELSE global_function.register_count

Pop(s) == SubSeq(s, 1, Len(s) - 1)
Top(s) == s[Len(s)]

\* variant: the implicit return hands the callee's register 1 to the caller
StepFunctionReturn_copying ==
    /\ Dispatch({"FunctionReturn"})
    /\ IF saved_call_frames = <<>>
       THEN /\ UNCHANGED <<status, registers, base_register, saved_call_frames,
                           current_function, ip, objects, output, call_log>>
       ELSE LET saved_call_frame == Top(saved_call_frames)
                frames == Pop(saved_call_frames)
            IN IF base_register < WindowStep(frames)
               THEN Stop("Panic")
               ELSE /\ base_register' = base_register - WindowStep(frames)
                    /\ registers' = SetAt(registers, base_register - WindowStep(frames),
                                          saved_call_frame.function_return_value,
                                          registers[base_register + 2])
                    /\ saved_call_frames' = frames
                    /\ ip' = saved_call_frame.ip + 1
                    /\ current_function' = saved_call_frame.function
                    /\ call_log' = Pop(call_log)
                    /\ UNCHANGED <<status, objects, output>>

\* Instruction::FunctionReturn
StepFunctionReturn ==
    /\ Dispatch({"FunctionReturn"})
    /\ IF saved_call_frames = <<>>
       THEN \* no frame to pop: nothing changes, not even ip
            /\ UNCHANGED <<status, registers, base_register, saved_call_frames,
                           current_function, ip, objects, output, call_log>>
       ELSE LET saved_call_frame == Top(saved_call_frames)
                frames == Pop(saved_call_frames)
            IN IF base_register < WindowStep(frames)
               THEN Stop("Panic")
               ELSE /\ base_register' = base_register - WindowStep(frames)
                    /\ saved_call_frames' = frames
                    /\ ip' = saved_call_frame.ip + 1
                    /\ current_function' = saved_call_frame.function
                    /\ call_log' = Pop(call_log)
                    /\ UNCHANGED <<status, registers, objects, output>>

\* variant: the value is read after the window has been restored
from_register_restored(old_base, new_base, val) == registers[new_base + val + 1]

\* `let from = registers[register_to_copy_from].clone()`, taken before
\* update_base_register: the value is read in the window of the callee
from_register(old_base, new_base, val) == registers[old_base + val + 1]

\* Instruction::Return { val }
StepReturn ==
    /\ Dispatch({"Return"})
    /\ IF saved_call_frames = <<>>
       THEN /\ UNCHANGED <<status, registers, base_register, saved_call_frames,
                           current_function, ip, objects, output, call_log>>
       ELSE LET saved_call_frame == Top(saved_call_frames)
                frames == Pop(saved_call_frames)
                new_base == base_register - WindowStep(frames)
                register_to_copy_to == saved_call_frame.function_return_value
                from == from_register(base_register, new_base, Fetch.val)
            IN IF \/ base_register < WindowStep(frames)
                  \/ ~InArray(Fetch.val)
                  \/ new_base + register_to_copy_to >= RegisterCapacity
               THEN Stop("Panic")
               ELSE /\ base_register' = new_base
                    /\ registers' = SetAt(registers, new_base, register_to_copy_to, from)
                    /\ saved_call_frames' = frames
                    /\ ip' = saved_call_frame.ip + 1
                    /\ current_function' = saved_call_frame.function
                    /\ call_log' = Pop(call_log)
                    /\ UNCHANGED <<status, objects, output>>

\* Instruction::LoadFunction { dest, src }
StepLoadFunction ==
    /\ Dispatch({"LoadFunction"})
    /\ IF Fetch.src >= Len(program.functions) \/ ~InArray(Fetch.dest)
       THEN Stop("Panic")
       ELSE /\ registers' = SetAt(registers, base_register, Fetch.dest,
                                  VFunction(Fetch.src + 1))
            /\ ip' = ip + 1
            /\ UNCHANGED <<status, base_register, saved_call_frames, current_function,
                           objects, output, call_log>>

\* Instruction::CallFunction { src, arg_count, return_val }
StepCallFunction ==
    /\ Dispatch({"CallFunction"})
    /\ LET func == Reg(Fetch.src)
           old_base == base_register
           new_base == base_register + WindowStep(saved_call_frames)
           arg_start == old_base + Fetch.src - Fetch.arg_count
           arg_end   == old_base + Fetch.src
       IN IF ~InArray(Fetch.src) THEN Stop("Panic")
          ELSE IF func.tag # "Function" THEN Stop("Panic")
          ELSE IF \/ new_base > RegisterCapacity          \* split_at_mut(base_register)
                  \/ Fetch.src < Fetch.arg_count          \* usize subtraction
                  \/ arg_end > new_base                   \* old_function_regs[..]
                  \/ new_base + Fetch.arg_count >= RegisterCapacity
                                                          \* new_function_regs[index + 1]
               THEN Stop("Panic")
          ELSE /\ base_register' = new_base
               /\ registers' =
                     [i \in 1..RegisterCapacity |->
                        IF i - 1 - new_base \in 1..Fetch.arg_count
                        THEN registers[arg_start + (i - 1 - new_base)]
                        ELSE registers[i]]
               /\ saved_call_frames' =
                     Append(saved_call_frames,
                            [ip |-> ip,
                             function |-> current_function,
                             register_count |-> FunctionOf(func.ref).register_count,
                             function_return_value |-> Fetch.return_val])
               /\ current_function' = func.ref
               /\ ip' = 0
               /\ call_log' = Append(call_log,
                                     [base |-> base_register,
                                      depth |-> Len(saved_call_frames),
                                      ip |-> ip,
                                      function |-> current_function,
                                      return_val |-> Fetch.return_val,
                                      registers |-> registers])
               /\ UNCHANGED <<status, objects, output>>

\* the instructions that only write one register of the window and advance ip
WriteAndAdvance(dest, value) ==
    /\ registers' = SetAt(registers, base_register, dest, value)
    /\ ip' = ip + 1
    /\ UNCHANGED <<status, base_register, saved_call_frames, current_function,
                   objects, output, call_log>>

\* variant: the argument slice is taken without the window base
StepCallNativeFunction_absolute_args ==
    /\ Dispatch({"CallNativeFunction"})
    /\ LET register == Reg(Fetch.src)
           function_name == register.lit.s
           arg_start == Fetch.src - Fetch.arg_count
           arg_values == [i \in 1..Fetch.arg_count |-> registers[arg_start + i]]
           return_value == call_native(native_function(function_name), arg_values)
       IN IF ~InArray(Fetch.src) THEN Stop("Panic")
          ELSE IF ~IsString(register) THEN Stop("InvalidOperation")
          ELSE IF ~has_native_function(function_name)
               THEN Stop("InvalidOperation")
          ELSE IF Fetch.src < Fetch.arg_count THEN Stop("Panic")
          ELSE IF return_value.has_value /\ ~InArray(Fetch.return_val) THEN Stop("Panic")
          ELSE /\ registers' = IF return_value.has_value
                               THEN SetAt(registers, base_register, Fetch.return_val,
                                          return_value.value)
                               ELSE registers
               /\ output' = IF Len(output) < MaxOutput
                            THEN Append(output, [name |-> function_name,
                                                 args |-> arg_values])
                            ELSE output
               /\ ip' = ip + 1
               /\ UNCHANGED <<status, base_register, saved_call_frames,
                              current_function, objects, call_log>>

\* Instruction::CallNativeFunction { src, arg_count, return_val }
StepCallNativeFunction ==
    /\ Dispatch({"CallNativeFunction"})
    /\ LET register == Reg(Fetch.src)
           function_name == register.lit.s
           arg_start == Fetch.src - Fetch.arg_count
           arg_values == [i \in 1..Fetch.arg_count |-> Reg(arg_start + i - 1)]
           return_value == call_native(native_function(function_name), arg_values)
       IN IF ~InArray(Fetch.src) THEN Stop("Panic")
          ELSE IF ~IsString(register) THEN Stop("InvalidOperation")
          ELSE IF ~has_native_function(function_name)
               THEN Stop("InvalidOperation")
          ELSE IF Fetch.src < Fetch.arg_count THEN Stop("Panic")
          ELSE IF return_value.has_value /\ ~InArray(Fetch.return_val) THEN Stop("Panic")
          ELSE /\ registers' = IF return_value.has_value
                               THEN SetAt(registers, base_register, Fetch.return_val,
                                          return_value.value)
                               ELSE registers
               /\ output' = IF Len(output) < MaxOutput
                            THEN Append(output, [name |-> function_name,
                                                 args |-> arg_values])
                            ELSE output
               /\ ip' = ip + 1
               /\ UNCHANGED <<status, base_register, saved_call_frames,
                              current_function, objects, call_log>>

\* Instruction::LoadLiteral { dest, src }
StepLoadLiteral ==
    /\ Dispatch({"LoadLiteral"})
    /\ IF Fetch.src >= Len(program.literals) \/ ~InArray(Fetch.dest)
       THEN Stop("Panic")
       ELSE WriteAndAdvance(Fetch.dest, VLiteral(program.literals[Fetch.src + 1]))

\* Instruction::Add / Sub / Mul / Div through impl_binary_op
StepArithmetic ==
    /\ Dispatch(ArithmeticOps)
    /\ LET lhs == Reg(Fetch.lhs)
           rhs == Reg(Fetch.rhs)
       IN IF ~InArray(Fetch.lhs) \/ ~InArray(Fetch.rhs) \/ ~InArray(Fetch.dest)
          THEN Stop("Panic")
          ELSE IF ~IsNumber(lhs) \/ ~IsNumber(rhs)
               THEN Stop("Panic")                       \* unreachable!()
          ELSE IF Fetch.op = "Div" /\ lhs.lit.lt = "Integer" /\ rhs.lit.lt = "Integer"
                  /\ rhs.lit.n = 0
               THEN Stop("Panic")                       \* attempt to divide by zero
          ELSE WriteAndAdvance(Fetch.dest, VLiteral(binary_op(Fetch.op, lhs.lit, rhs.lit)))

\* Instruction::Equals .. LessThanOrEquals through impl_binary_comparator
StepComparison ==
    /\ Dispatch(ComparatorOps)
    /\ IF ~InArray(Fetch.lhs) \/ ~InArray(Fetch.rhs) \/ ~InArray(Fetch.dest)
       THEN Stop("Panic")
       ELSE WriteAndAdvance(Fetch.dest,
               VLiteral(LBoolean(compare(Fetch.op, Reg(Fetch.lhs), Reg(Fetch.rhs)))))

\* Instruction::Copy { dest, src }
StepCopy ==
    /\ Dispatch({"Copy"})
    /\ IF ~InArray(Fetch.src) \/ ~InArray(Fetch.dest)
       THEN Stop("Panic")
       ELSE WriteAndAdvance(Fetch.dest, Reg(Fetch.src))

\* Instruction::PrefixNot { dest, rhs }
StepPrefixNot ==
    /\ Dispatch({"PrefixNot"})
    /\ LET rhs == Reg(Fetch.rhs)
       IN IF ~InArray(Fetch.rhs) THEN Stop("Panic")
          ELSE IF ~IsBoolean(rhs) THEN Stop("InvalidOperation")
          ELSE IF ~InArray(Fetch.dest) THEN Stop("Panic")
          ELSE WriteAndAdvance(Fetch.dest, VLiteral(LBoolean(rhs.lit.n = 0)))

\* Instruction::PrefixSub { dest, rhs }
StepPrefixSub ==
    /\ Dispatch({"PrefixSub"})
    /\ LET rhs == Reg(Fetch.rhs)
       IN IF ~InArray(Fetch.rhs) THEN Stop("Panic")
          ELSE IF ~IsNumber(rhs) THEN Stop("InvalidOperation")
          ELSE IF ~InArray(Fetch.dest) THEN Stop("Panic")
          ELSE WriteAndAdvance(Fetch.dest, VLiteral([rhs.lit EXCEPT !.n = -@]))

JumpTo(target) ==
    /\ ip' = target
    /\ UNCHANGED <<status, registers, base_register, saved_call_frames,
                   current_function, objects, output, call_log>>

\* Instruction::JumpIfFalse { src, offset }
StepJumpIfFalse ==
    /\ Dispatch({"JumpIfFalse"})
    /\ LET register_value == Reg(Fetch.src)
       IN IF ~InArray(Fetch.src) THEN Stop("Panic")
          ELSE IF ~IsBoolean(register_value) THEN Stop("Panic")     \* unreachable!()
          ELSE IF register_value.lit.n = 1 THEN JumpTo(ip + 1)
          ELSE JumpTo(ip + Fetch.offset)

\* Instruction::Jump { offset }
StepJump ==
    /\ Dispatch({"Jump"})
    /\ JumpTo(ip + Fetch.offset)

\* variant: the backward jump lands one instruction after the target
StepJumpReverse_skipping_first ==
    /\ Dispatch({"JumpReverse"})
    /\ IF Fetch.offset > ip THEN Stop("Panic")
       ELSE JumpTo(ip - Fetch.offset + 1)

\* Instruction::JumpReverse { offset }
StepJumpReverse ==
    /\ Dispatch({"JumpReverse"})
    /\ IF Fetch.offset > ip THEN Stop("Panic")          \* usize subtraction
       ELSE JumpTo(ip - Fetch.offset)

(***************************************************************************)
(* types::Object: an OrderMap from field name to value, kept as a sequence *)
(* of (key, value) entries with one entry for each key.                    *)
(***************************************************************************)
FieldIndex(object, key) == {i \in 1..Len(object) : object[i].key = key}

\* Object::insert: replace the value of an existing key in place, else append
object_insert(object, key, value) ==
    IF FieldIndex(object, key) # {}
    THEN [object EXCEPT ![CHOOSE i \in FieldIndex(object, key) : TRUE].value = value]
    ELSE Append(object, [key |-> key, value |-> value])

\* Object::index followed by the conversion of GetObjectField: Empty when absent
object_get(object, key) ==
    IF FieldIndex(object, key) # {}
    THEN object[CHOOSE i \in FieldIndex(object, key) : TRUE].value
    ELSE VEmpty

\* Instruction::AllocateObject { dest }
StepAllocateObject ==
    /\ Dispatch({"AllocateObject"})
    /\ IF ~InArray(Fetch.dest) THEN Stop("Panic")
       ELSE /\ objects' = Append(objects, <<>>)
            /\ registers' = SetAt(registers, base_register, Fetch.dest,
                                  VObject(Len(objects) + 1))
            /\ ip' = ip + 1
            /\ UNCHANGED <<status, base_register, saved_call_frames, current_function,
                           output, call_log>>

\* variant: the write goes to a private copy of the object, which the
\* register of the writer then holds
StepSetObjectField_copy_on_write ==
    /\ Dispatch({"SetObjectField"})
    /\ LET obj   == Reg(Fetch.object)
           key   == Reg(Fetch.field)
           value == Reg(Fetch.value)
       IN IF ~InArray(Fetch.object) \/ ~InArray(Fetch.field) \/ ~InArray(Fetch.value)
          THEN Stop("Panic")
          ELSE IF obj.tag # "Object" \/ ~IsString(key) \/ value.tag = "Empty"
               THEN Stop("Panic")
          ELSE /\ objects' = Append(objects, object_insert(objects[obj.ref], key.lit.s, value))
               /\ registers' = SetAt(registers, base_register, Fetch.object,
                                     VObject(Len(objects) + 1))
               /\ ip' = ip + 1
               /\ UNCHANGED <<status, base_register, saved_call_frames,
                              current_function, output, call_log>>

\* Instruction::SetObjectField { object, field, value }
StepSetObjectField ==
    /\ Dispatch({"SetObjectField"})
    /\ LET obj   == Reg(Fetch.object)
           key   == Reg(Fetch.field)
           value == Reg(Fetch.value)
       IN IF ~InArray(Fetch.object) \/ ~InArray(Fetch.field) \/ ~InArray(Fetch.value)
          THEN Stop("Panic")
          ELSE IF obj.tag # "Object" \/ ~IsString(key) \/ value.tag = "Empty"
               THEN Stop("Panic")                       \* unreachable!()
          ELSE /\ objects' = [objects EXCEPT ![obj.ref] =
                                 object_insert(@, key.lit.s, value)]
               /\ ip' = ip + 1
               /\ UNCHANGED <<status, registers, base_register, saved_call_frames,
                              current_function, output, call_log>>

\* Instruction::GetObjectField { object, field, return_val }
StepGetObjectField ==
    /\ Dispatch({"GetObjectField"})
    /\ LET obj == Reg(Fetch.object)
           key == Reg(Fetch.field)
       IN IF ~InArray(Fetch.object) \/ ~InArray(Fetch.field) \/ ~InArray(Fetch.return_val)
          THEN Stop("Panic")
          ELSE IF obj.tag # "Object" \/ ~IsString(key)
               THEN Stop("Panic")                       \* unreachable!()
          ELSE WriteAndAdvance(Fetch.return_val, object_get(objects[obj.ref], key.lit.s))

(***************************************************************************)
(* types::Array: a Vec of shared values on the heap; a slot that was never *)
(* set holds ObjectValue::Nil, which reads back as Empty.                  *)
(***************************************************************************)
VArray(h) == [tag |-> "Array", lit |-> NoLiteral, ref |-> h]

\* Vec::resize(n, Nil): truncate to n, or fill up to n with Nil
array_resize(this, n) == [i \in 1..n |-> IF i <= Len(this) THEN this[i] ELSE VEmpty]

\* variant: growth starts from an empty vector
array_set_fresh(this, idx, v) ==
    [(IF idx >= Len(this) \/ this = <<>>
      THEN array_resize(<<>>, 2 * (idx + 1)) ELSE this) EXCEPT ![idx + 1] = v]

\* Array::set, for an index that is a usize the vector can hold
array_set(this, idx, v) ==
    [(IF idx >= Len(this) \/ this = <<>>
      THEN array_resize(this, 2 * (idx + 1)) ELSE this) EXCEPT ![idx + 1] = v]

\* variant: a slot never set reads as the integer 0
array_index_zero(this, idx) ==
    IF idx >= 0 /\ idx < Len(this) /\ this[idx + 1] # VEmpty THEN this[idx + 1]
    ELSE VLiteral(LInteger(0))

\* Array::index followed by the conversion of GetArrayIndex; a negative
\* integer cast `as usize` is beyond every length
array_index(this, idx) ==
    IF idx >= 0 /\ idx < Len(this) THEN this[idx + 1] ELSE VEmpty

IsInteger(v) == v.tag = "Literal" /\ v.lit.lt = "Integer"

\* Instruction::AllocateArray { dest }
StepAllocateArray ==
    /\ Dispatch({"AllocateArray"})
    /\ IF ~InArray(Fetch.dest) THEN Stop("Panic")
       ELSE /\ objects' = Append(objects, <<>>)
            /\ registers' = SetAt(registers, base_register, Fetch.dest,
                                  VArray(Len(objects) + 1))
            /\ ip' = ip + 1
            /\ UNCHANGED <<status, base_register, saved_call_frames, current_function,
                           output, call_log>>

\* Instruction::SetArrayIndex { array, index, value }
StepSetArrayIndex ==
    /\ Dispatch({"SetArrayIndex"})
    /\ LET index == Reg(Fetch.index)
           array == Reg(Fetch.array)
           value == Reg(Fetch.value)
       IN IF ~InArray(Fetch.index) \/ ~InArray(Fetch.array) \/ ~InArray(Fetch.value)
          THEN Stop("Panic")
          ELSE IF ~IsInteger(index) \/ array.tag # "Array" \/ value.tag = "Empty"
               THEN Stop("Panic")                       \* unreachable!()
          ELSE IF index.lit.n < 0
               THEN \* `as usize` of a negative index: 2 * (idx + 1) overflows, or
                    \* the resize exceeds the capacity, or this[idx] is out of bounds
                    Stop("Panic")
          ELSE /\ objects' = [objects EXCEPT ![array.ref] =
                                 array_set(@, index.lit.n, value)]
               /\ ip' = ip + 1
               /\ UNCHANGED <<status, registers, base_register, saved_call_frames,
                              current_function, output, call_log>>

\* Instruction::GetArrayIndex { array, index, return_val }
StepGetArrayIndex ==
    /\ Dispatch({"GetArrayIndex"})
    /\ LET index == Reg(Fetch.index)
           array == Reg(Fetch.array)
       IN IF ~InArray(Fetch.index) \/ ~InArray(Fetch.array) \/ ~InArray(Fetch.return_val)
          THEN Stop("Panic")
          ELSE IF ~IsInteger(index) \/ array.tag # "Array"
               THEN Stop("Panic")                       \* unreachable!()
          ELSE WriteAndAdvance(Fetch.return_val,
                               array_index(objects[array.ref], index.lit.n))

Next ==
    \/ Compile
    \/ Assemble
    \/ Run
    \/ StepFunctionReturn
    \/ StepReturn
    \/ StepLoadFunction
    \/ StepCallNativeFunction
    \/ StepCallFunction
    \/ StepLoadLiteral
    \/ StepArithmetic
    \/ StepComparison
    \/ StepCopy
    \/ StepPrefixNot
    \/ StepPrefixSub
    \/ StepJumpIfFalse
    \/ StepJump
    \/ StepJumpReverse
    \/ StepAllocateObject
    \/ StepSetObjectField
    \/ StepGetObjectField
    \/ StepAllocateArray
    \/ StepSetArrayIndex
    \/ StepGetArrayIndex
    \/ Finish

Spec == Init /\ [][Next]_vars

\* one turn of the dispatch loop: an instruction, or the exit at the end of
\* the code
Step ==
    \/ StepFunctionReturn
    \/ StepReturn
    \/ StepLoadFunction
    \/ StepCallNativeFunction
    \/ StepCallFunction
    \/ StepLoadLiteral
    \/ StepArithmetic
    \/ StepComparison
    \/ StepCopy
    \/ StepPrefixNot
    \/ StepPrefixSub
    \/ StepJumpIfFalse
    \/ StepJump
    \/ StepJumpReverse
    \/ StepAllocateObject
    \/ StepSetObjectField
    \/ StepGetObjectField
    \/ StepAllocateArray
    \/ StepSetArrayIndex
    \/ StepGetArrayIndex
    \/ Finish

\* the dispatch loop is a sequential loop of one thread: once running, it
\* keeps taking turns while a turn can be taken
FairSpec == Spec /\ WF_vars(Step)

(***************************************************************************)
(* Properties.                                                             *)
(***************************************************************************)
Started == status \in {"Running", "Ok", "InvalidOperation", "Panic"}
Compiled == status \notin {"Source", "CompileError"}

\* a Return or FunctionReturn is about to pop a frame
Returning ==
    /\ status = "Running"
    /\ ip < Len(Code)
    /\ Fetch.op \in {"Return", "FunctionReturn"}
    /\ saved_call_frames # <<>>

\* a CallFunction is about to be dispatched
Calling ==
    /\ status = "Running"
    /\ ip < Len(Code)
    /\ Fetch.op = "CallFunction"

RECURSIVE CallerRegisterCounts(_)
CallerRegisterCounts(frames) ==
    IF frames = <<>> THEN 0
    ELSE FunctionOf(Top(frames).function).register_count
         + CallerRegisterCounts(Pop(frames))

C1_WindowBase == Started => base_register = CallerRegisterCounts(saved_call_frames)

C1_Balanced ==
    Returning =>
        /\ status' = "Running"
        /\ base_register' = Top(call_log).base
        /\ Len(saved_call_frames') = Top(call_log).depth
        /\ current_function' = Top(call_log).function
        /\ ip' = Top(call_log).ip + 1

\* C1: in every VM state the window base is the sum of the register counts of
\* the active callers (the functions recorded in the saved frames, the global
\* code among them), and a return restores the window base and the frame depth
\* of the matching call and resumes at the instruction after it in the caller.
C1_WindowBalanced == [](C1_WindowBase) /\ [][C1_Balanced]_vars

\* a call made by a function has returned into that function, two frames deep
C1_Witness ==
    /\ status = "Running"
    /\ current_function # 0
    /\ ip > 0
    /\ Code[ip].op = "CallFunction"
    /\ Len(saved_call_frames) >= 2
    /\ <<current_function, ip - 1>> \in executed

\* the absolute registers of the window of the k-th active caller
CallerWindow(k) ==
    {r \in 0..RegisterCapacity - 1 :
        /\ r >= call_log[k].base
        /\ r < call_log[k].base + FunctionOf(call_log[k].function).register_count}

C2_Step ==
    \A k \in 1..Len(call_log) : \A r \in CallerWindow(k) :
        \/ registers'[r + 1] = call_log[k].registers[r + 1]
        \/ /\ Returning
           /\ Fetch.op = "Return"
           /\ k = Len(call_log)
           /\ r = call_log[k].base + call_log[k].return_val

\* C2: while a call is in progress every register in the window of every
\* active caller keeps the value it had when the call was made; the one
\* exception is the return register of the immediate caller, at the Return.
C2_CallerWindowsPreserved == [][C2_Step]_vars

\* a callee two frames deep has written registers of its own window
C2_Witness ==
    /\ status = "Running"
    /\ Len(call_log) >= 2
    /\ \E r \in 1..RegisterCapacity : registers[r] # Top(call_log).registers[r]

\* the value of an expression over the parameters a and b, by the semantics of
\* the language (integers and booleans)
RECURSIVE Value(_, _, _)
Value(expr, a, b) ==
    CASE expr.k = "Literal"  -> expr.lit
      [] expr.k = "Variable" -> IF expr.name = "a" THEN LInteger(a) ELSE LInteger(b)
      [] expr.k = "Prefix" ->
            IF expr.op = "Minus" THEN LInteger(-Value(expr.expr, a, b).n)
            ELSE LBoolean(Value(expr.expr, a, b).n = 0)
      [] expr.k = "Infix" ->
            LET l == Value(expr.lhs, a, b).n
                r == Value(expr.rhs, a, b).n
            IN CASE expr.op = "Plus"        -> LInteger(l + r)
                 [] expr.op = "Minus"       -> LInteger(l - r)
                 [] expr.op = "Multiply"    -> LInteger(l * r)
                 [] expr.op = "GreaterThan" -> LBoolean(l > r)

RECURSIVE Power2(_)
Power2(n) == IF n = 0 THEN 1 ELSE 2 * Power2(n - 1)

\* the register the global scope binds a name to, after compilation
GlobalRegister(name) == registers[resolve(compiler, name) + 1]

\* a Return that pops a frame copies register val of the window it leaves
\* into the recorded return register of the window it restores
C3_Step ==
    (Returning /\ Fetch.op = "Return") =>
        /\ status' = "Running"
        /\ base_register' = Top(call_log).base
        /\ registers'[base_register' + Top(saved_call_frames).function_return_value + 1]
              = registers[base_register + Fetch.val + 1]
        /\ Top(saved_call_frames).function_return_value = Top(call_log).return_val

C3_Result ==
    /\ (input[1] = "call" /\ status = "Ok") =>
          GlobalRegister("r") = VLiteral(Value(ReturnExprs[input[2]], input[3], input[4]))
    /\ (input[1] = "chain" /\ input[4] = 1 /\ status = "Ok") =>
          GlobalRegister("r") = VLiteral(LInteger(input[3] + Power2(input[2] - 1)))
    /\ (input[1] \in {"call", "chain"} /\ Compiled) => status # "Panic"

C4_Entered ==
        /\ ip' = 0
        \* register 0 of the window of the callee is not written
        /\ registers'[base_register' + 1] = registers[base_register' + 1]
        /\ input[1] = "call" =>
              /\ registers'[base_register' + 2] = VLiteral(LInteger(input[3]))
              /\ registers'[base_register' + 3] = VLiteral(LInteger(input[4]))
              \* `return a` and `return b` name the registers bound to a and b
              /\ input[2] \in {1, 2} =>
                    /\ Code'[1].op = "Return"
                    /\ Code'[1].val = input[2]
        /\ (input[1] = "chain" /\ current_function = 0) =>
              registers'[base_register' + 2] = VLiteral(LInteger(input[3]))
        \* in general: the argument registers of the caller, in order
        /\ \A i \in 1..Fetch.arg_count :
              /\ Code[ip - Fetch.arg_count + i - 1].op = "Copy"
              /\ registers'[base_register' + i + 1] =
                    registers[base_register + Code[ip - Fetch.arg_count + i - 1].dest + 1]

\* a call enters the callee unless the new window and the arguments do not
\* fit in the register array
C4_Step ==
    Calling =>
        /\ status' = "Running" <=>
              base_register + WindowStep(saved_call_frames) + Fetch.arg_count
                 < RegisterCapacity
        /\ status' = "Running" => C4_Entered

\* C4: when a compiled call enters the callee, register i of the new window
\* holds the value of the i-th argument, which is the register bound to the
\* i-th parameter, and register 0 of the new window is as it was.
C4_ArgumentsInPlace == [][C4_Step]_vars

\* the callee of f1(A, B) with two different arguments is at its first instruction
C4_Witness ==
    /\ input[1] = "call"
    /\ input[3] # input[4]
    /\ status = "Running"
    /\ current_function = 1
    /\ ip = 0
    /\ Reg(1) = VLiteral(LInteger(input[3]))
    /\ Reg(2) = VLiteral(LInteger(input[4]))

\* the code of f1 in the "rec" family
RecursiveCode == program.functions[1].code

\* C5: a call to f1 inside the body of f1 is compiled as LoadFunction of f1
\* followed by CallFunction, not as a native call, and running
\* `fn f1(n) { if n > 0 { return f1(n - 1) } return 0 } let r = f1(A);`
\* does not fault.
C5_RecursionSupported ==
    (input[1] = "rec" /\ Compiled) =>
        /\ \E i \in 1..Len(RecursiveCode) - 1 :
              /\ RecursiveCode[i].op = "LoadFunction"
              /\ RecursiveCode[i].src = 0
              /\ RecursiveCode[i + 1].op = "CallFunction"
        /\ \A i \in 1..Len(RecursiveCode) : RecursiveCode[i].op # "CallNativeFunction"
        /\ status \notin {"InvalidOperation", "Panic"}

\* the number of instructions Lets(names, n) compiles to: a LoadLiteral for
\* each declaration and Copy, LoadLiteral, CallNativeFunction for each call
LetsSize(n) == n + 3 * (n \div 2)

\* the registers handed out while code[lo..hi] was emitted
Allocated(code, lo, hi) ==
    {IF code[i].op = "CallNativeFunction" THEN code[i].return_val ELSE code[i].dest :
        i \in lo..hi}

BlocksCode == IF input[4] = 0 THEN program.global_code ELSE program.functions[1].code
FirstBlock  == Allocated(BlocksCode, 1, LetsSize(input[2]))
SecondBlock == Allocated(BlocksCode, LetsSize(input[2]) + 1,
                         LetsSize(input[2]) + LetsSize(input[3]))

CodeSlices == <<program.global_code>> \o
              [f \in 1..Len(program.functions) |-> program.functions[f].code]

LoadLiterals(code) == {i \in 1..Len(code) : code[i].op = "LoadLiteral"}
LoadedLiteral(code, i) == program.literals[code[i].src + 1]

\* C7: the literal pool of a compiled program holds no two equal literals and
\* any two LoadLiteral of equal literals carry the same id; in
\* `let a = L1; let b = L2; let o = {x: L3}; print(L1);` each LoadLiteral loads
\* the literal written in the source, the field name "x" and the native name
\* "print" among them.
C7_LiteralDedup ==
    (status = "Compiled" /\ input[1] \notin AssembledFamilies) =>
        /\ \A i, j \in 1..Len(program.literals) :
              program.literals[i] = program.literals[j] => i = j
        /\ \A s, u \in 1..Len(CodeSlices) :
              \A i \in LoadLiterals(CodeSlices[s]) : \A j \in LoadLiterals(CodeSlices[u]) :
                 /\ CodeSlices[s][i].src < Len(program.literals)
                 /\ LoadedLiteral(CodeSlices[s], i) = LoadedLiteral(CodeSlices[u], j)
                       => CodeSlices[s][i].src = CodeSlices[u][j].src
        /\ input[1] = "lit" =>
              /\ LoadLiterals(program.global_code) = {1, 2, 4, 5, 7, 9}
              /\ LoadedLiteral(program.global_code, 1) = LiteralChoices[input[2]]
              /\ LoadedLiteral(program.global_code, 2) = LiteralChoices[input[3]]
              /\ LoadedLiteral(program.global_code, 4) = LString("x")
              /\ LoadedLiteral(program.global_code, 5) = LiteralChoices[input[4]]
              /\ LoadedLiteral(program.global_code, 7) = LiteralChoices[input[2]]
              /\ LoadedLiteral(program.global_code, 9) = LString("print")

\* `let a = 3; let b = 3;` with "print" as a user literal too: one pool entry each
C7_Witness ==
    /\ input = <<"lit", 1, 1, 3>>
    /\ Compiled
    /\ program.literals = <<LInteger(3), LString("x"), LString("print")>>
    /\ program.global_code[1].src = program.global_code[2].src

\* the kind of the declaration of x nearest to `x = 2` in the "mut" family
NearestKind == IF input[4] # 0 THEN input[4] ELSE input[2]

\* C8: a reassignment of x whose nearest binding is a const or a let without
\* mut makes compile fail with MutationNotAllowed; no program is produced.
C8_ImmutableRejected ==
    (input[1] = "mut" /\ NearestKind \in {1, 2} /\ status # "Source") =>
        /\ status = "CompileError"
        /\ compiler.err = "MutationNotAllowed"

\* an inner const x shadows an outer `let mut x`, and the reassignment is refused
C8_Witness ==
    /\ input = <<"mut", 3, 2, 1>>
    /\ status = "CompileError"
    /\ compiler.err = "MutationNotAllowed"

\* the index in the global code of the LoadLiteral that initialises the
\* binding of x nearest to `x = 2`
NearestLet == IF input[4] = 0 THEN 1 ELSE 2

\* C9: with a `let mut x` nearest to `x = 2`, compilation succeeds and the Copy
\* of the reassignment has as destination the register that let bound to x,
\* at every nesting depth; x resolves to that register afterwards (to the
\* outer x again once the block of an inner x is left) and holds 2 at the end.
C9_MutationInPlace ==
    (input[1] = "mut" /\ NearestKind = 3 /\ status # "Source") =>
        LET code == program.global_code
            x == code[NearestLet].dest
            copy == NearestLet + 2
        IN /\ status # "CompileError"
           /\ code[NearestLet].op = "LoadLiteral"
           /\ code[copy].op = "Copy"
           /\ code[copy].dest = x
           /\ code[copy].src = code[copy - 1].dest
           /\ code[copy + 1].op = "PrefixSub"
           /\ code[copy + 1].rhs = x
           /\ code[copy + 2].op = "PrefixSub"
           /\ code[copy + 2].rhs = (IF input[4] # 0 /\ input[3] > 0 THEN code[1].dest ELSE x)
           /\ status = "Ok" => registers[x + 1] = VLiteral(LInteger(2))

\* `let mut x = 1; { { x = 2; ... } } ...` has run: x was reassigned two blocks deep
C9_Witness ==
    /\ input = <<"mut", 3, 2, 0>>
    /\ status = "Ok"
    /\ registers[program.global_code[1].dest + 1] = VLiteral(LInteger(2))

\* the layout of `let c = <cond>; if c { T } [else { E }] let after = 0;`:
\* instruction 0 loads c, 1 is the JumpIfFalse, T follows, then (with an else)
\* the Jump and E
ThenSize  == LetsSize(input[3])
HasElse   == input[4] # 0
ElseSize  == IF HasElse THEN LetsSize(input[4] - 1) ELSE 0
ThenBody  == 2..(1 + ThenSize)
ElseBody  == IF HasElse THEN (3 + ThenSize)..(2 + ThenSize + ElseSize) ELSE {}
AfterElse == IF HasElse THEN 3 + ThenSize + ElseSize ELSE 2 + ThenSize
Ran(S)    == \A i \in S : <<0, i>> \in executed
Skipped(S) == \A i \in S : <<0, i>> \notin executed

\* C10: of `if c { T } else { E }` exactly one body runs: with c true every
\* instruction of T and none of E, with c false the reverse (without else:
\* none of T), and in both cases execution goes on at the first instruction
\* after E (after T without an else), for every length of T and E.
C10_OneBranch ==
    (input[1] = "if" /\ Compiled) =>
        /\ status \notin {"Panic", "InvalidOperation"}
        /\ Len(program.global_code) = AfterElse + 1
        /\ input[2] = 1 => /\ Skipped(ElseBody)
                           /\ status = "Ok" => Ran(ThenBody)
                           /\ (status = "Running" /\ ip > 1) =>
                                 ip \in ThenBody \cup {2 + ThenSize, AfterElse, AfterElse + 1}
        /\ input[2] = 0 => /\ Skipped(ThenBody)
                           /\ status = "Ok" => Ran(ElseBody)
                           /\ (status = "Running" /\ ip > 1) =>
                                 ip \in ElseBody \cup {AfterElse, AfterElse + 1}
        /\ status = "Ok" => <<0, AfterElse>> \in executed

\* a false condition has run an else body of two statements and gone on after it
C10_Witness ==
    /\ input = <<"if", 0, 2, 3>>
    /\ status = "Ok"
    /\ Ran(ElseBody)
    /\ Skipped(ThenBody)
    /\ <<0, AfterElse>> \in executed

(***************************************************************************)
(* Loops: `<pads> let mut x = 0; loop { if x > bound { break; } x = x + 1; }`*)
(***************************************************************************)
\* the code slice that holds the loop counting x
LoopCode == IF input[4] = 3 THEN program.functions[1].code ELSE program.global_code

\* the index in LoopCode of the LoadLiteral of `let mut x = 0`
CounterLet == IF input[4] = 4 THEN input[2] + 2 ELSE input[2]

\* the value now in the register of the counter x (in f1: as returned into r)
Counter ==
    IF input[4] = 3 THEN GlobalRegister("r")
    ELSE registers[LoopCode[CounterLet + 1].dest + 1]

LoopDone ==
    /\ input[1] = "loops"
    /\ status = "Ok"
    /\ Counter = VLiteral(LInteger(input[3] + 1))

\* C11: a loop that increments a counter and breaks once the counter exceeds
\* the bound is eventually left, the run finishing with Ok and the counter
\* holding the first value above the bound, also when the loop is nested or
\* followed by further statements.
C11_LoopTerminates == (input[1] = "loops" /\ status = "Running") ~> LoopDone

\* the indices (from 0) of the Jump instructions of a code slice; in the
\* "loops" family, which has no else, each of them is a break
Jumps(code) == {j \in 0..Len(code) - 1 : code[j + 1].op = "Jump"}

\* the indices of the JumpReverse instructions whose loop body holds index j
ClosingAfter(code, j) ==
    {e \in j + 1..Len(code) - 1 :
        /\ code[e + 1].op = "JumpReverse"
        /\ e - code[e + 1].offset <= j}

\* the index of the JumpReverse that closes the innermost loop around index j
Closing(code, j) == Min(ClosingAfter(code, j))

\* the index of the first instruction after the loop counting x
AfterLoop == Max({e \in 0..Len(LoopCode) - 1 : LoopCode[e + 1].op = "JumpReverse"}) + 1

\* C12: every break is a Jump to the instruction right after the JumpReverse
\* closing its loop, wherever the loop starts in its code buffer (global code,
\* a function body, an if body), and the statement following the loop is
\* executed once the loop has been left.
C12_BreakTarget ==
    (input[1] = "loops" /\ Compiled) =>
        /\ \A s \in 1..Len(CodeSlices) : \A j \in Jumps(CodeSlices[s]) :
              /\ ClosingAfter(CodeSlices[s], j) # {}
              /\ j + CodeSlices[s][j + 1].offset = Closing(CodeSlices[s], j) + 1
        /\ (status = "Ok" /\ input[4] # 0) =>
              <<IF input[4] = 3 THEN 1 ELSE 0, AfterLoop>> \in executed

(***************************************************************************)
(* Objects.                                                                *)
(***************************************************************************)
\* C13: when two variable names, a variable of the caller and a parameter of
\* the callee, a variable and a field of another object, or a variable and a
\* reassigned variable hold the same object, a field written through one
\* holder is what a later read through each holder yields.
C13_Aliasing ==
    (input[1] = "alias" /\ Compiled) =>
        /\ status \notin {"Panic", "InvalidOperation"}
        /\ status = "Ok" =>
              /\ GlobalRegister("r") = VLiteral(LInteger(input[3]))
              /\ GlobalRegister("r2") = VLiteral(LInteger(input[3]))
              /\ GlobalRegister("o").tag = "Object"
              /\ object_get(objects[GlobalRegister("o").ref], "x") = VLiteral(LInteger(input[3]))

\* the callee has written a.x and the caller has read o.x, with B # A
C13_Witness ==
    /\ input[1] = "alias"
    /\ input[4] = 1
    /\ input[2] # input[3]
    /\ status = "Ok"
    /\ GlobalRegister("r") = VLiteral(LInteger(input[3]))

(***************************************************************************)
(* Arithmetic: `let r = L1 <op> L2;` over the literals of Numbers.         *)
(***************************************************************************)
LeftOperand  == Numbers[input[3]]
RightOperand == Numbers[input[4]]
BothIntegers == LeftOperand.lt = "Integer" /\ RightOperand.lt = "Integer"

\* C14: the result of Add, Sub, Mul or Div on two numeric literals is an
\* Integer exactly when both operands are Integers and a Float otherwise:
\* 1 + 2 is the Integer 3, 1 + 2.5 the Float 3.5, and 7 / 2 the Integer 3.
\* The only operation that yields no result is an Integer division by the
\* Integer 0.
C14_Promotion ==
    (input[1] = "arith" /\ Compiled) =>
        /\ status # "InvalidOperation"
        /\ status = "Panic" => (input[2] = 4 /\ BothIntegers /\ RightOperand.n = 0)
        /\ status = "Ok" =>
              /\ GlobalRegister("r").tag = "Literal"
              /\ GlobalRegister("r").lit.lt = (IF BothIntegers THEN "Integer" ELSE "Float")
              /\ input = <<"arith", 1, 2, 3>> => GlobalRegister("r") = VLiteral(LInteger(3))
              /\ input = <<"arith", 1, 2, 8>> => GlobalRegister("r") = VLiteral(LFloat(7))
              /\ input = <<"arith", 4, 4, 3>> => GlobalRegister("r") = VLiteral(LInteger(3))
              /\ input = <<"arith", 3, 3, 8>> => GlobalRegister("r") = VLiteral(LFloat(10))

\* 1 + 2.5 has been computed: the Float 3.5
C14_Witness ==
    /\ input = <<"arith", 1, 2, 8>>
    /\ status = "Ok"
    /\ GlobalRegister("r") = VLiteral(LFloat(7))

(***************************************************************************)
(* Native calls.                                                           *)
(***************************************************************************)
\* a CallNativeFunction is about to be dispatched with the name of no native
CallingUnknownNative ==
    /\ status = "Running"
    /\ ip < Len(Code)
    /\ Fetch.op = "CallNativeFunction"
    /\ IsString(Reg(Fetch.src))
    /\ Reg(Fetch.src).lit.s \notin RegisteredNatives \cup StandardLibrary

C15_Step ==
    /\ CallingUnknownNative =>
          /\ status' = "InvalidOperation"
          /\ registers' = registers
          /\ output' = output
          /\ ip' = ip
    /\ status = "InvalidOperation" => vars' = vars

\* C15: a CallNativeFunction whose name is neither a registered native nor in
\* the standard library ends the run with InvalidOperation: no native is
\* invoked, no register (the return register among them) is written, and
\* nothing runs afterwards.
C15_UnknownNative == [][C15_Step]_vars

\* `let r = missing(A);` has ended in InvalidOperation with r never written
C15_Witness ==
    /\ input[1] = "native"
    /\ NativeNames[input[2]] = "missing"
    /\ status = "InvalidOperation"
    /\ registers[program.global_code[ip + 1].return_val + 1] = VEmpty
    /\ output = <<>>

(***************************************************************************)
(* Jump targets.                                                           *)
(***************************************************************************)
\* the index a jump at index i (from 0) of a code slice transfers control to
JumpTarget(code, i) ==
    IF code[i + 1].op = "JumpReverse" THEN i - code[i + 1].offset
    ELSE i + code[i + 1].offset

JumpIndices(code) ==
    {i \in 0..Len(code) - 1 : code[i + 1].op \in {"Jump", "JumpIfFalse", "JumpReverse"}}

\* C16: in a compiled program every Jump, JumpIfFalse and JumpReverse of a
\* code slice has its target inside that slice or exactly at its end, and no
\* Jump carries the break sentinel.
C16_JumpTargets ==
    Compiled =>
        \A s \in 1..Len(CodeSlices) : \A i \in JumpIndices(CodeSlices[s]) :
            /\ JumpTarget(CodeSlices[s], i) \in 0..Len(CodeSlices[s])
            /\ CodeSlices[s][i + 1].offset # BreakSentinel

(***************************************************************************)
(* Operands the typechecker would have rejected.                           *)
(***************************************************************************)
\* the register values an operand of the unchecked programs evaluates to
MixedKinds == <<"Object", "Empty", "String", "Integer", "Boolean">>

\* the operands of `let r = <L> <op> <R>` are not two literals of one kind
Incompatible ==
    /\ input[1] = "mixed"
    /\ \/ MixedKinds[input[3]] \in {"Object", "Empty"}
       \/ MixedKinds[input[4]] \in {"Object", "Empty"}
       \/ input[3] # input[4]

\* C17: without the typechecker, an arithmetic or comparison instruction whose
\* operands are non-literal or of incompatible literal kinds ends the run with
\* InvalidOperation: the run neither crashes, nor completes, nor writes a
\* result into the destination register.
C17_OperandsRejected ==
    Incompatible =>
        /\ status \notin {"Ok", "Panic"}
        /\ Compiled => GlobalRegister("r") = VEmpty

(***************************************************************************)
(* Register kinds the dispatch loop cannot interpret.                      *)
(***************************************************************************)
\* the instruction about to be dispatched inspects a register of a kind it
\* has no meaning for
Uninterpretable ==
    /\ status = "Running"
    /\ ip < Len(Code)
    /\ \/ Fetch.op = "JumpIfFalse" /\ InArray(Fetch.src) /\ ~IsBoolean(Reg(Fetch.src))
       \/ Fetch.op = "CallFunction" /\ InArray(Fetch.src)
          /\ Reg(Fetch.src).tag # "Function"
       \/ Fetch.op \in {"SetObjectField", "GetObjectField"}
          /\ InArray(Fetch.object) /\ InArray(Fetch.field)
          /\ (Reg(Fetch.object).tag # "Object" \/ ~IsString(Reg(Fetch.field)))
       \/ Fetch.op = "PrefixNot" /\ InArray(Fetch.rhs) /\ ~IsBoolean(Reg(Fetch.rhs))
       \/ Fetch.op = "PrefixSub" /\ InArray(Fetch.rhs) /\ ~IsNumber(Reg(Fetch.rhs))

C18_Step ==
    /\ Uninterpretable =>
          /\ status' = "InvalidOperation"
          /\ UNCHANGED <<registers, base_register, saved_call_frames,
                         current_function, ip, objects, output>>
    /\ status = "InvalidOperation" => vars' = vars

\* C18: a state the dispatch loop cannot interpret (JumpIfFalse on a
\* non-boolean, CallFunction on a non-function, Set/GetObjectField on a
\* non-object or with a non-string key, unary ! or - on the wrong kind) ends
\* the run with InvalidOperation, never with a crash, and no instruction
\* executes after the fault.
C18_FaultsReported == [][C18_Step]_vars

(***************************************************************************)
(* Operand widths.                                                         *)
(***************************************************************************)
\* the registers the parameter and the declarations of the wide function take
RegistersNeeded == U8Max - MaxBody + input[2] + 1

\* the function needs a register index above u8::MAX
NeedsTooManyRegisters ==
    /\ input[1] = "wide"
    /\ RegistersNeeded > U8Max

\* C19: compiling a function that needs more registers than an 8-bit
\* register index can address makes compile() return an error: the
\* compiler neither panics nor hands out a wrapped register index and succeeds.
C19_WidthOverflowIsError ==
    (NeedsTooManyRegisters /\ status # "Source") => status = "CompileError"

(***************************************************************************)
(* Names without a binding.                                                *)
(***************************************************************************)
\* the program uses x where no scope on the scope stack binds it: x was never
\* declared, or only in a block, if body, function body or loop body that has
\* been left
UsesUnboundName ==
    /\ input[1] = "unbound"
    /\ input[2] \in 0..4

\* C20: using a variable name that no scope on the scope stack binds makes
\* compile() fail with VariableNotFound.
C20_UnboundNameRejected ==
    (UsesUnboundName /\ status # "Source") =>
        /\ status = "CompileError"
        /\ compiler.err = "VariableNotFound"

(***************************************************************************)
(* The way a run ends.                                                     *)
(***************************************************************************)
\* the Returned state: no frame saved, the global code current and exhausted
Returned ==
    /\ saved_call_frames = <<>>
    /\ current_function = 0
    /\ ip >= Len(program.global_code)

\* C21: a run ends with Ok only in the Returned state: the call-frame stack is
\* empty, the current code is the global code and ip is at or past its end.
C21_OkOnlyWhenReturned == status = "Ok" => Returned

(***************************************************************************)
(* The patch pass of a loop.                                               *)
(***************************************************************************)
\* the compiler when compile_loop is entered for the inner loop of the breaks
\* program: the declarations before the outer loop, then, in the scope of the
\* outer body, the declarations and the break that precede the inner loop
BeforeInnerLoop ==
    compile_statements(add_scope(compile(NewCompiler, Pads(input[2]))),
                       Pads(input[3]) \o <<SBreak>>, 1)

\* the compiler when compile_loop returns for the inner loop
AfterInnerLoop == compile_loop(BeforeInnerLoop, InnerLoop.lbody)

\* the indices (from 1) of the inner loop's body in the buffer
InnerBody == (Len(BeforeInnerLoop.bytecode) + 1)..(Len(AfterInnerLoop.bytecode) - 1)

IsSentinel(instruction) ==
    instruction.op = "Jump" /\ instruction.offset = BreakSentinel

\* C22: a break's sentinel Jump is resolved exactly once, by the innermost loop
\* that encloses it: when compile_loop returns the loop's body holds no
\* sentinel Jump, its patch pass has rewritten no instruction outside that
\* body, and the outer loop's patch pass leaves the Jumps the inner loop has
\* resolved unchanged.
C22_BreakResolvedOnce ==
    (input[1] = "breaks" /\ Compiled) =>
        /\ \A i \in InnerBody : ~IsSentinel(AfterInnerLoop.bytecode[i])
        /\ SubSeq(AfterInnerLoop.bytecode, 1, Len(BeforeInnerLoop.bytecode))
              = BeforeInnerLoop.bytecode
        /\ \A i \in InnerBody :
              AfterInnerLoop.bytecode[i].op = "Jump"
              /\ ~IsSentinel(AfterInnerLoop.bytecode[i])
              => compiler.bytecode[i] = AfterInnerLoop.bytecode[i]

(***************************************************************************)
(* The backward jump of a loop.                                            *)
(***************************************************************************)
\* the index, in its code slice, of the first instruction of the body of the
\* loop that the JumpReverse at index e closes, counted from the statements
\* that precede the body:
\*   loops:  the loop counting x starts after `let mut x = 0`, the loop counting
\*           y inside it one instruction later, after `let mut y = 0`
\*   breaks: the outer loop starts after the p declarations, the inner loop
\*           after the q declarations and the break of the outer body
LoopStart(e) ==
    IF input[1] = "loops"
    THEN IF e = AfterLoop - 1 THEN CounterLet + 1 ELSE CounterLet + 2
    ELSE IF e = Len(program.global_code) - 1 THEN input[2]
         ELSE input[2] + input[3] + 1

\* a JumpReverse is about to be dispatched
AtJumpReverse ==
    /\ input[1] \in {"loops", "breaks"}
    /\ status = "Running"
    /\ ip < Len(Code)
    /\ Fetch.op = "JumpReverse"

C23_Step ==
    AtJumpReverse =>
        /\ status' = "Running"
        /\ ip' = LoopStart(ip)
        /\ current_function' = current_function
        /\ registers' = registers

\* C23: the JumpReverse appended after a loop body transfers control to the
\* first instruction of that loop's body, whatever the length of the body and
\* the position of the loop in its code buffer, and changes nothing else.
C23_JumpReverseToBodyStart == [][C23_Step]_vars

\* the loop counting x, placed after three declarations and followed by two,
\* has gone round once: its JumpReverse has run and ip is back at the first
\* instruction of the body
C23_Witness ==
    /\ input[1] = "loops"
    /\ input[2] = 3
    /\ input[4] = 1
    /\ status = "Running"
    /\ <<0, AfterLoop - 1>> \in executed
    /\ ip = CounterLet + 1

(***************************************************************************)
(* Chains of if / else if / else.                                          *)
(***************************************************************************)
\* the conditions of the chain that hold, and the first of them (0: none)
TrueConditions == {i \in 1..input[2] : ConditionHolds(input[3], i)}
FirstTrue == IF TrueConditions = {} THEN 0 ELSE Min(TrueConditions)

NativeCall(name, v) == [name |-> name, args |-> <<VLiteral(LInteger(v))>>]

\* the native calls of a run that evaluates the conditions up to the first
\* true one, executes that branch (or the final else, if any, when no
\* condition holds) and continues after the chain
ChainOutput ==
    [i \in 1..(IF FirstTrue = 0 THEN input[2] ELSE FirstTrue) |-> NativeCall("test", i)]
    \o (IF FirstTrue # 0 THEN <<NativeCall("print", FirstTrue)>>
        ELSE IF input[4] = 1 THEN <<NativeCall("print", 0)>>
        ELSE <<>>)
    \o <<NativeCall("print", 9)>>

IsPrefix(s, t) == Len(s) <= Len(t) /\ s = SubSeq(t, 1, Len(s))

\* C24: in an if / else if / ... / else chain only the conditions up to the
\* first true one are evaluated, only the body of that condition executes (the
\* final else when no condition holds), and execution continues with the
\* statement after the whole chain.
C24_ElseIfChain ==
    input[1] = "elseif" =>
        /\ IsPrefix(output, ChainOutput)
        /\ status \notin {"CompileError", "Panic", "InvalidOperation"}
        /\ status = "Ok" => output = ChainOutput

\* false, true, true with a final else: the second body alone has run, the
\* third condition was never evaluated, and the run went on after the chain
C24_Witness ==
    /\ input = <<"elseif", 3, 6, 1>>
    /\ status = "Ok"
    /\ output = <<NativeCall("test", 1), NativeCall("test", 2),
                  NativeCall("print", 2), NativeCall("print", 9)>>

(***************************************************************************)
(* C25  FunctionReturn, the implicit return at the end of a function body, *)
(* pops the saved frame, moves the window back to the caller and resumes   *)
(* at the instruction after the call; it copies no value, so every         *)
(* register of the caller's window, the recorded return register included, *)
(* holds what it held when the call was made.                              *)
(***************************************************************************)
AtFunctionReturn ==
    /\ status = "Running"
    /\ ip < Len(Code)
    /\ Code[ip + 1].op = "FunctionReturn"
    /\ saved_call_frames # <<>>

\* the absolute indices of the window of the call that is returning
ReturningWindow(call) ==
    {call.base + r + 1 : r \in 0..FunctionOf(call.function).register_count - 1}
        \cup {call.base + call.return_val + 1}

C25_Step ==
    AtFunctionReturn =>
        LET call == Top(call_log)
        IN /\ status' = "Running"
           /\ saved_call_frames' = Pop(saved_call_frames)
           /\ base_register' = call.base
           /\ current_function' = call.function
           /\ ip' = call.ip + 1
           /\ \A i \in ReturningWindow(call) : registers'[i] = call.registers[i]
           /\ registers' = registers

C25_FunctionReturnCopiesNothing == [][C25_Step]_vars

\* an implicit return is about to hand control back to a caller whose return
\* register is empty while the callee's first register holds a value
C25_Witness ==
    /\ AtFunctionReturn
    /\ registers[base_register + 2] # VEmpty
    /\ Top(call_log).registers[Top(call_log).base + Top(call_log).return_val + 1] = VEmpty
    /\ \E i \in ReturningWindow(Top(call_log)) : registers[i] # VEmpty

(***************************************************************************)
(* C26  A native call hands the native exactly arg_count values, those of  *)
(* the argument registers in order; a returned value is stored in the      *)
(* return register and nothing else is written; when the native returns    *)
(* none no register changes; ip advances by one.  For the programs         *)
(* `<name>(11, v, 13, ...)` the values received are those of the argument  *)
(* expressions, in the order they were written.                            *)
(***************************************************************************)
AtNativeCall ==
    /\ status = "Running"
    /\ ip < Len(Code)
    /\ Code[ip + 1].op = "CallNativeFunction"

\* the values of the arguments written in the source of a "nargs" program
WrittenArguments ==
    [i \in 1..input[3] |-> VLiteral(LInteger(IF i = 2 THEN 5 ELSE 10 + i))]

C26_Step ==
    (AtNativeCall /\ status' = "Running") =>
        LET call == Code[ip + 1]
            name == Reg(call.src).lit.s
            passed == output'[Len(output')].args
        IN /\ ip' = ip + 1
           /\ Len(output) < MaxOutput => output' = Append(output, output'[Len(output')])
           /\ Len(output) < MaxOutput =>
                 /\ output'[Len(output')].name = name
                 /\ Len(passed) = call.arg_count
                 /\ \A i \in 1..call.arg_count :
                       passed[i] = Reg(call.src - call.arg_count + i - 1)
                 /\ input[1] = "nargs" =>
                       /\ name = NativeNames[input[2]]
                       /\ passed = WrittenArguments
           /\ IF name = "test" \/ (name = "print" /\ "print" \in native_functions)
              THEN /\ registers'[base_register + call.return_val + 1] =
                         VLiteral(LBoolean(TRUE))
                   /\ \A i \in 1..RegisterCapacity :
                         i # base_register + call.return_val + 1 =>
                             registers'[i] = registers[i]
              ELSE registers' = registers
           /\ UNCHANGED <<base_register, saved_call_frames, current_function, objects>>

C26_NativeCall == [][C26_Step]_vars

\* `test(11, 5, 13)` has been called in the body of f1, whose window starts
\* above register 0, and its result is in the return register
C26_Witness ==
    /\ input = <<"nargs", 2, 3, 1>>
    /\ status = "Running"
    /\ base_register > 0
    /\ ip > 0
    /\ Code[ip].op = "CallNativeFunction"
    /\ output = <<[name |-> "test", args |-> WrittenArguments]>>
    /\ Reg(Code[ip].return_val) = VLiteral(LBoolean(TRUE))

(***************************************************************************)
(* C27  Lexical shadowing: a use of x sees the binding of the innermost    *)
(* enclosing block that has declared x so far; once that block is exited x *)
(* is the outer binding again, with the value the outer binding has.       *)
(***************************************************************************)
\* the number bound to x that is visible at nesting level i once the
\* declarations of levels 1..i have been made
Visible(i) == 10 + Max({0} \cup {j \in 1..i : ConditionHolds(input[3], j)})

\* what the prints of level i and of the levels nested in it show: the
\* binding seen on entry, the one seen after the level's own declaration,
\* and, after each nested block, the level's own binding again
RECURSIVE ShadowOutput(_)
ShadowOutput(i) ==
    (IF i = 0 THEN <<>> ELSE <<NativeCall("print", Visible(i - 1))>>)
    \o <<NativeCall("print", Visible(i))>>
    \o (IF i < input[2]
        THEN ShadowOutput(i + 1) \o <<NativeCall("print", Visible(i))>>
        ELSE <<>>)

\* the history keeps the first MaxOutput calls
Recorded(calls) ==
    IF Len(calls) <= MaxOutput THEN calls ELSE SubSeq(calls, 1, MaxOutput)

C27_LexicalShadowing ==
    input[1] = "shadow" =>
        /\ IsPrefix(output, Recorded(ShadowOutput(0)))
        /\ status \notin {"CompileError", "Panic", "InvalidOperation"}
        /\ status = "Ok" => output = Recorded(ShadowOutput(0))

\* x is declared at level 0 and level 2 but not at level 1: the prints show
\* 10, then 10 10 in block 1, 10 12 in block 2, 10 after block 2, 10 at the end
C27_Witness ==
    /\ input = <<"shadow", 2, 2, 0>>
    /\ status = "Ok"
    /\ output = <<NativeCall("print", 10), NativeCall("print", 10),
                  NativeCall("print", 10), NativeCall("print", 10),
                  NativeCall("print", 12), NativeCall("print", 10),
                  NativeCall("print", 10)>>

(***************************************************************************)
(* C28  Mutability is that of the nearest binding.  In                     *)
(*   <decl> x = 1; { [<decl'> x = 5;] [x = 2;] print(x); } [x = 3;] print(x); *)
(* `x = 2` is refused exactly when the inner declaration, or the outer one *)
(* when there is no inner one, is not `let mut`; `x = 3`, after the block, *)
(* is refused exactly when the outer declaration is not `let mut`,         *)
(* whatever the block declared.  A refusal is MutationNotAllowed; without  *)
(* one the program compiles and each assignment changes the binding it     *)
(* names and no other.                                                     *)
(***************************************************************************)
InnerAssigns == input[4] \in {0, 2}
OuterAssigns == input[4] \in {1, 2}
InnerRefused == InnerAssigns /\ (IF input[3] = 0 THEN input[2] ELSE input[3]) # 3
OuterRefused == OuterAssigns /\ input[2] # 3

\* what print(x) shows inside the block, and after it
InnerShown == IF InnerAssigns THEN 2 ELSE IF input[3] = 0 THEN 1 ELSE 5
OuterShown == IF OuterAssigns THEN 3
              ELSE IF InnerAssigns /\ input[3] = 0 THEN 2 ELSE 1

C28_NearestBindingDecides ==
    (input[1] = "nearest" /\ status # "Source") =>
        IF InnerRefused \/ OuterRefused
        THEN status = "CompileError" /\ compiler.err = "MutationNotAllowed"
        ELSE /\ status \notin {"CompileError", "Panic", "InvalidOperation"}
             /\ IsPrefix(output, <<NativeCall("print", InnerShown),
                                   NativeCall("print", OuterShown)>>)
             /\ status = "Ok" => Len(output) = 2

\* `let mut x = 1; { let x = 5; print(x); } x = 3; print(x);`: the inner
\* immutable x does not stop the assignment made after its block
C28_Witness ==
    /\ input = <<"nearest", 3, 2, 1>>
    /\ status = "Ok"
    /\ output = <<NativeCall("print", 5), NativeCall("print", 3)>>

(***************************************************************************)
(* C29  A function declaration leaves the enclosing code as it was: the    *)
(* program with the declaration of f2 compiles to the same enclosing code, *)
(* register count and scope depth as the program without it.  In the body  *)
(* the register counter starts at 1: parameter i is register i, the first  *)
(* local is register n + 1, and the recorded code ends with                *)
(* FunctionReturn.                                                         *)
(***************************************************************************)
\* the result of compiling the same program without the declaration of f2
Undeclared ==
    compile([NewCompiler EXCEPT !.overflow_checks = compiler.overflow_checks],
            DeclarationProgram(input[2], input[3], input[4], FALSE))

\* the function of that name recorded by the compiler
Recorded_f(c, name) ==
    c.functions[CHOOSE i \in 1..Len(c.functions) : c.functions[i].name = name]

\* the code recorded for f2
DeclaredCode == Recorded_f(compiler, "f2").code

C29_DeclarationLeavesEnclosing ==
    (input[1] = "decl" /\ status # "Source") =>
        /\ ~Failed(compiler)
        /\ compiler.bytecode = Undeclared.bytecode
        /\ compiler.next_available_register = Undeclared.next_available_register
        /\ Len(compiler.scope_stack) = Len(Undeclared.scope_stack)
        /\ Len(compiler.functions) = Len(Undeclared.functions) + 1
        /\ input[4] = 2 =>
              /\ Recorded_f(compiler, "f1").code = Recorded_f(Undeclared, "f1").code
              /\ Recorded_f(compiler, "f1").register_count =
                    Recorded_f(Undeclared, "f1").register_count
        /\ Len(DeclaredCode) = input[3] + 2
        /\ DeclaredCode[1].op = "LoadLiteral"
        /\ DeclaredCode[1].dest = input[3] + 1
        /\ \A i \in 1..input[3] :
              /\ DeclaredCode[i + 1].op = "PrefixSub"
              /\ DeclaredCode[i + 1].rhs = i
              /\ DeclaredCode[i + 1].dest = input[3] + 1 + i
        /\ DeclaredCode[Len(DeclaredCode)] = IFunctionReturn
        /\ Recorded_f(compiler, "f2").register_count = 2 * input[3] + 2

\* f2 with three parameters is declared after two declarations in the body of
\* f1; f1's code has two LoadLiterals before and one after, and FunctionReturn
C29_Witness ==
    /\ input = <<"decl", 2, 3, 2>>
    /\ status = "Ok"
    /\ Len(Recorded_f(compiler, "f1").code) = 4
    /\ Recorded_f(compiler, "f1").register_count = 5
    /\ DeclaredCode[4] = IPrefix("PrefixSub", 7, 3)

(***************************************************************************)
(* C30  A call to a name that no enclosing scope has registered as a       *)
(* function when the call is compiled (never declared, declared later, or  *)
(* declared in a block already left) is not a compile error.  The call is  *)
(* compiled as LoadLiteral of the name as a string, then                   *)
(* CallNativeFunction on that register with the number of arguments        *)
(* written; the run ends Ok with the native invoked when a native has that *)
(* name, and with InvalidOperation, no native invoked, when none has.      *)
(***************************************************************************)
LaterName == LaterNames[input[2]]

\* index i of the global code holds the native call of the name, loaded by
\* the instruction before it
IsNativeCallOfName(i) ==
    LET call == compiler.bytecode[i]
        load == compiler.bytecode[i - 1]
    IN /\ call.op = "CallNativeFunction"
       /\ call.arg_count = input[3]
       /\ load.op = "LoadLiteral"
       /\ load.dest = call.src
       /\ load.src < Len(compiler.literals)
       /\ compiler.literals[load.src + 1] = LString(LaterName)

C30_UnregisteredCalleeIsNative ==
    (input[1] = "later" /\ status # "Source") =>
        /\ status \notin {"CompileError", "Panic"}
        /\ \E i \in 2..Len(compiler.bytecode) : IsNativeCallOfName(i)
        /\ \A i \in 1..Len(compiler.bytecode) :
              compiler.bytecode[i].op \notin {"CallFunction", "LoadFunction"}
        /\ IF has_native_function(LaterName)
           THEN /\ status # "InvalidOperation"
                /\ IsPrefix(output, <<[name |-> LaterName, args |-> WrittenArguments]>>)
                /\ status = "Ok" => Len(output) = 1
           ELSE /\ status # "Ok"
                /\ output = <<>>

\* `let v = 5; let r = f1(11, v); fn f1(a) { return a; } let after = 1;`
\* compiled, run, and stopped at the call because no native is named f1
C30_Witness ==
    /\ input = <<"later", 1, 2, 1>>
    /\ status = "InvalidOperation"
    /\ ip = 5
    /\ IsNativeCallOfName(ip + 1)
    /\ Len(compiler.functions) = 1

(***************************************************************************)
(* C31  Reading what is not there yields Empty and is not a fault:         *)
(* GetObjectField with a key the object does not hold, GetArrayIndex with  *)
(* an index beyond the length, negative, or in a slot never set, write     *)
(* Empty to the result register and go on.  A field that has been set      *)
(* reads back as the value last set for that key, whatever was set for     *)
(* other keys in between.                                                  *)
(***************************************************************************)
AtAbsentField ==
    /\ status = "Running"
    /\ ip < Len(Code)
    /\ Fetch.op = "GetObjectField"
    /\ Reg(Fetch.object).tag = "Object"
    /\ IsString(Reg(Fetch.field))
    /\ \A i \in 1..Len(objects[Reg(Fetch.object).ref]) :
          objects[Reg(Fetch.object).ref][i].key # Reg(Fetch.field).lit.s

AtUnsetIndex ==
    /\ status = "Running"
    /\ ip < Len(Code)
    /\ Fetch.op = "GetArrayIndex"
    /\ Reg(Fetch.array).tag = "Array"
    /\ IsInteger(Reg(Fetch.index))
    /\ \/ Reg(Fetch.index).lit.n < 0
       \/ Reg(Fetch.index).lit.n >= Len(objects[Reg(Fetch.array).ref])
       \/ objects[Reg(Fetch.array).ref][Reg(Fetch.index).lit.n + 1] = VEmpty

\* the values the reads of a "fields" program end with
FieldsReadBack ==
    (input[1] = "fields" /\ status # "Source") =>
        /\ status \notin {"CompileError", "Panic", "InvalidOperation"}
        /\ status = "Ok" =>
              /\ GlobalRegister("r1") = VEmpty
              /\ GlobalRegister("r2") = VLiteral(LInteger(2))
              /\ GlobalRegister("r3") =
                    VLiteral(LInteger(IF input[3] = input[2] THEN 3 ELSE 2))

\* the value of a[g] in an "array" program once `written` of the two
\* assignments a[i1] = 11, a[i2] = 12 have been made
ArrayElement(g, written) ==
    IF written >= 2 /\ g = input[3] THEN VLiteral(LInteger(12))
    ELSE IF written >= 1 /\ g = input[2] THEN VLiteral(LInteger(11))
    ELSE VEmpty

\* the reads of an "array" program: only an assignment at a negative index
\* stops the run, and each read that has been made shows the element
ArrayReadBack ==
    input[1] = "array" =>
        /\ status # "InvalidOperation"
        /\ status = "Panic" => (input[2] < 0 /\ ip = 7)
        /\ status = "Ok" => input[2] >= 0
        /\ (status \in {"Running", "Ok"} /\ ip > 6) =>
              registers[8] = ArrayElement(input[4], 0)
        /\ (status \in {"Running", "Ok"} /\ ip > 8) =>
              registers[9] = ArrayElement(input[4], 1)
        /\ status = "Ok" =>
              /\ registers[10] = ArrayElement(input[4], 2)
              /\ registers[11] = ArrayElement(input[2], 2)
              /\ registers[12] = ArrayElement(input[3], 2)

C31_Step ==
    /\ (AtAbsentField \/ AtUnsetIndex) =>
          /\ status' = "Running"
          /\ ip' = ip + 1
          /\ registers'[base_register + Fetch.return_val + 1] = VEmpty
    /\ FieldsReadBack'
    /\ ArrayReadBack'

C31_AbsentReadsEmpty == [][C31_Step]_vars

\* a[2] = 11 made the array six long; a[4], a slot filled by the growth, has
\* been read as Empty
C31_Witness ==
    /\ input = <<"array", 2, 0, 4>>
    /\ status = "Running"
    /\ ip = 9
    /\ Len(objects[1]) = 6
    /\ registers[9] = VEmpty

(***************************************************************************)
(* C32  An array assignment that does not fault keeps what the array held: *)
(* after a[idx] = v the element at idx is v, the length is at least        *)
(* idx + 1, and exactly 2 * (idx + 1) when idx was beyond the old length,  *)
(* every other element is what it was, and the length has not decreased.   *)
(* No step of the VM makes an array shorter.                               *)
(***************************************************************************)
AtArraySet ==
    /\ status = "Running"
    /\ ip < Len(Code)
    /\ Fetch.op = "SetArrayIndex"

C32_Step ==
    /\ (AtArraySet /\ status' = "Running") =>
          LET h == Reg(Fetch.array).ref
              idx == Reg(Fetch.index).lit.n
              old == objects[h]
              new == objects'[h]
          IN /\ idx >= 0
             /\ Len(new) >= idx + 1
             /\ Len(new) >= Len(old)
             /\ new[idx + 1] = Reg(Fetch.value)
             /\ idx >= Len(old) => Len(new) = 2 * (idx + 1)
             /\ idx < Len(old) => Len(new) = Len(old)
             /\ \A i \in 1..Len(old) : i # idx + 1 => new[i] = old[i]
             /\ \A i \in Len(old) + 1..Len(new) : i # idx + 1 => new[i] = VEmpty
    /\ \A h \in 1..Len(objects) : Len(objects'[h]) >= Len(objects[h])
    /\ ArrayReadBack'

C32_ArrayGrowsKeepingData == [][C32_Step]_vars

\* a[0] = 11 made the array two long; a[2] = 12 has grown it to six, and
\* a[0] is still 11
C32_Witness ==
    /\ input = <<"array", 0, 2, 0>>
    /\ status = "Ok"
    /\ Len(objects[1]) = 6
    /\ registers[11] = VLiteral(LInteger(11))
    /\ registers[12] = VLiteral(LInteger(12))

(***************************************************************************)
(* C33  A comparison of two numbers compares them by value, an Integer     *)
(* being taken as the Float of the same value when the other operand is a  *)
(* Float: `let r = L1 <comparison> L2` leaves in r the Boolean the         *)
(* comparison has on the two numbers, so that exactly one of <, ==, >      *)
(* holds of any two of them.                                               *)
(***************************************************************************)
\* the comparison on two numbers given in halves
ByValue(op, a, b) ==
    CASE op = "Equal"              -> a = b
      [] op = "NotEqual"           -> a # b
      [] op = "GreaterThan"        -> a > b
      [] op = "GreaterThanOrEqual" -> a >= b
      [] op = "LessThan"           -> a < b
      [] op = "LessThanOrEqual"    -> a <= b

C33_ComparesByValue ==
    (input[1] = "cmp" /\ status # "Source") =>
        /\ status \notin {"CompileError", "Panic", "InvalidOperation"}
        /\ status = "Ok" =>
              GlobalRegister("r") =
                 VLiteral(LBoolean(ByValue(ComparisonOperators[input[2]],
                                           Halves(Numbers[input[3]]),
                                           Halves(Numbers[input[4]]))))

(***************************************************************************)
(* C34  In every code object the compiler produces, each register operand  *)
(* of each instruction is at least 1 and less than the register count      *)
(* recorded for that code object, also when the body of a function names a *)
(* variable declared outside it: no instruction addresses a register       *)
(* outside the window of the code it belongs to.                           *)
(***************************************************************************)
\* the operands of an instruction that are register indices (src of
\* LoadLiteral and LoadFunction is an index into the literals / functions)
RegisterOperands(i) ==
    CASE i.op \in {"LoadLiteral", "LoadFunction", "AllocateObject", "AllocateArray"} ->
            {i.dest}
      [] i.op = "Copy" -> {i.dest, i.src}
      [] i.op \in {"PrefixNot", "PrefixSub"} -> {i.dest, i.rhs}
      [] i.op \in ArithmeticOps \cup ComparatorOps -> {i.dest, i.lhs, i.rhs}
      [] i.op = "JumpIfFalse" -> {i.src}
      [] i.op = "Return" -> {i.val}
      [] i.op \in {"CallFunction", "CallNativeFunction"} ->
            {i.src, i.return_val} \cup {i.src - k : k \in 1..i.arg_count}
      [] i.op = "SetObjectField" -> {i.object, i.field, i.value}
      [] i.op = "GetObjectField" -> {i.object, i.field, i.return_val}
      [] i.op = "SetArrayIndex" -> {i.array, i.index, i.value}
      [] i.op = "GetArrayIndex" -> {i.array, i.index, i.return_val}
      [] OTHER -> {}

OperandsWithin(code, register_count) ==
    \A i \in 1..Len(code) : \A r \in RegisterOperands(code[i]) :
        r >= 1 /\ r < register_count

C34_OperandsInWindow ==
    (status \in {"Compiled", "Running", "Ok"} /\ input[1] \notin AssembledFamilies) =>
        /\ OperandsWithin(program.global_code, program.global_register_count)
        /\ \A f \in 1..Len(program.functions) :
              OperandsWithin(program.functions[f].code,
                             program.functions[f].register_count)

(***************************************************************************)
(* C35  Reassigning a variable does not change what another variable       *)
(* holds: after `<decl> a = 1; let mut b = a; b = 2;` a is still 1 and b   *)
(* is 2, and no Copy has as destination the register bound to a when a is  *)
(* a const or a let without mut.                                           *)
(***************************************************************************)
C35_OtherVariableKept ==
    (input[1] = "copy" /\ status # "Source") =>
        /\ status \notin {"CompileError", "Panic", "InvalidOperation"}
        /\ IsPrefix(output, <<NativeCall("print", 1), NativeCall("print", 2)>>)
        /\ status = "Ok" => Len(output) = 2
        /\ input[2] \in {1, 2} =>
              \A i \in 1..Len(compiler.bytecode) :
                  compiler.bytecode[i].op = "Copy" =>
                      compiler.bytecode[i].dest # resolve(compiler, "a")

\* no JumpReverse in the global code nor in the code of any function
HasJumpReverse(code) == \E i \in 1..Len(code) : code[i].op = "JumpReverse"

LoopFree ==
    /\ ~HasJumpReverse(program.global_code)
    /\ \A f \in 1..Len(program.functions) : ~HasJumpReverse(program.functions[f].code)

(***************************************************************************)
(* C36  A run of a program without JumpReverse (recursion compiles to a    *)
(* native call, so no call chain is unbounded) ends: the dispatch loop     *)
(* leaves the Running state, also when a Return or FunctionReturn is       *)
(* executed while no call frame is saved.                                  *)
(***************************************************************************)
C36_LoopFreeRunEnds == (status = "Running" /\ LoopFree) ~> (status # "Running")

(***************************************************************************)
(* C37  Every register access stays inside the register array: whenever an *)
(* instruction is about to run, the window base plus each of its register  *)
(* operands is below RegisterCapacity, and a call whose window would not   *)
(* fit ends the run with an ExecutionError, never with an access outside   *)
(* the array.                                                              *)
(***************************************************************************)
C37_AccessWithinCapacity ==
    input[1] = "deep" =>
        /\ status # "Panic"
        /\ (status = "Running" /\ ip < Len(Code)) =>
              \A r \in RegisterOperands(Fetch) : base_register + r < RegisterCapacity

(***************************************************************************)
(* C38  Of several functions of one name, a call runs the one declared in  *)
(* the nearest enclosing scope that registers the name at the call site: a *)
(* function declared in a block, function body or if body that has been    *)
(* left is not the target of a later call outside it, which runs the       *)
(* function of the enclosing scope instead.                                *)
(***************************************************************************)
C38_CallRunsNearestFunction ==
    (input[1] = "same" /\ status # "Source") =>
        /\ status \notin {"CompileError", "Panic", "InvalidOperation"}
        /\ IsPrefix(output, <<NativeCall("print", NearestF1(input[2]))>>)
        /\ status = "Ok" => Len(output) = 1

\* `let r = print(A);` has run to the end
PrintCalled ==
    /\ input[1] \in {"native", "override"}
    /\ NativeNames[input[2]] = "print"
    /\ status = "Ok"

(***************************************************************************)
(* C39  A native registered under the name print is the one a call of      *)
(* print invokes: its return value is stored in the call's return          *)
(* register, where the print of the standard library, which runs when no   *)
(* such native is registered, stores nothing.                              *)
(***************************************************************************)
C39_RegisteredNativeFirst ==
    PrintCalled =>
        /\ output = <<NativeCall("print", input[3])>>
        /\ GlobalRegister("r") = IF input[1] = "override"
                                 THEN VLiteral(LBoolean(TRUE))
                                 ELSE VEmpty

C39_Witness ==
    /\ input = <<"override", 1, 2, 0>>
    /\ status = "Ok"
    /\ GlobalRegister("r") = VLiteral(LBoolean(TRUE))

(***************************************************************************)
(* C40  Integer arithmetic never aborts the VM: `let r = L1 <op> L2;` on   *)
(* two Integer literals, a division by the Integer 0 included, ends with   *)
(* Ok and an Integer in r or with ExecutionError::InvalidOperation, never  *)
(* with an abnormal abort.                                                 *)
(***************************************************************************)
C40_IntegerArithmeticEndsDefined ==
    (input[1] = "arith" /\ BothIntegers) =>
        /\ status # "Panic"
        /\ status = "Ok" => GlobalRegister("r").lit.lt = "Integer"

====
